---- MODULE Spec2Model ----
(***************************************************************************)
(* Incremental ingestion and checkpoint engine of the SFTP log monitor     *)
(* (src/incremental_updater.py), with the callers that start its cycles    *)
(* (src/app_collector.py) and the collector that refreshes the local       *)
(* artifacts (src/ssh_collector.py).                                       *)
(*                                                                         *)
(* Python strings are sequences of atoms.  An atom is one character where  *)
(* the code looks inside a word (size tokens) and a run of characters that *)
(* no pattern of the code splits elsewhere (dates, file name parts).  The  *)
(* string operations below work on atoms the way Python's work on          *)
(* characters.                                                             *)
(***************************************************************************)
EXTENDS Integers, Sequences, FiniteSets, TLC

(***************************************************************************)
(* Bounds of the model.                                                    *)
(***************************************************************************)
\* ledger rows the remote hosts write, over all hosts
MaxRows == 2
\* report entries the remote hosts write, over all hosts
MaxEntries == 1
\* ingestion cycles started, over all callers
MaxCycles == 3
\* ingestion cycles started where cycles meet errors
MaxFaultCycles == 2
\* entry lines of a report that is found at the start
MaxLines == 2
\* entry lines of a report that grows between cycles
MaxReport == 3
\* lines of a report of any text that is found at the start
MaxText == 4

(***************************************************************************)
(* Strings.                                                                *)
(***************************************************************************)
\* Python's None: no string equals it.
None == <<"<None>">>

Truthy(s) == s # None /\ s # <<>>

Whitespace == {" ", "\t", "\n"}

MatchAt(s, p, i) ==
    /\ i >= 1
    /\ i + Len(p) - 1 <= Len(s)
    /\ \A j \in 1..Len(p) : s[i + j - 1] = p[j]

\* str.find, 1-based; 0 when the pattern does not occur
Find(s, p) ==
    LET hits == {i \in 1..Len(s) : MatchAt(s, p, i)}
    IN  IF hits = {} THEN 0 ELSE CHOOSE i \in hits : \A j \in hits : i <= j

\* p in s
Contains(s, p) == Find(s, p) # 0

\* s.startswith(p)
StartsWith(s, p) == MatchAt(s, p, 1)

RECURSIVE Split(_, _)
\* s.split(p), p not empty
Split(s, p) ==
    LET i == Find(s, p)
    IN  IF i = 0 THEN <<s>>
        ELSE <<SubSeq(s, 1, i - 1)>> \o Split(SubSeq(s, i + Len(p), Len(s)), p)

RECURSIVE Join(_)
Join(parts) ==
    IF parts = <<>> THEN <<>> ELSE Head(parts) \o Join(Tail(parts))

\* s.replace(p, "")
Remove(s, p) == Join(Split(s, p))

RECURSIVE LStrip(_)
LStrip(s) ==
    IF s # <<>> /\ Head(s) \in Whitespace THEN LStrip(Tail(s)) ELSE s

RECURSIVE RStrip(_)
RStrip(s) ==
    IF s # <<>> /\ s[Len(s)] \in Whitespace
    THEN RStrip(SubSeq(s, 1, Len(s) - 1)) ELSE s

\* s.strip()
Strip(s) == LStrip(RStrip(s))

RECURSIVE RStripChar(_, _)
\* s.rstrip(c) for a one-character c
RStripChar(s, c) ==
    IF s # <<>> /\ s[Len(s)] = c
    THEN RStripChar(SubSeq(s, 1, Len(s) - 1), c) ELSE s

LowerAtom(a) ==
    CASE a = "K" -> "k" [] a = "B" -> "b" [] a = "M" -> "m" [] a = "G" -> "g"
      [] a = "Y" -> "y" [] a = "T" -> "t" [] a = "E" -> "e" [] a = "S" -> "s"
      [] OTHER -> a

\* The size string compared as written, upper case left as it is.
SameCase(s) == s

\* s.lower()
Lower(s) == [i \in 1..Len(s) |-> LowerAtom(s[i])]

(***************************************************************************)
(* Numbers in strings.  A decimal literal is an optional sign, digits and  *)
(* at most one point; its value is kept exactly as num / 10^scale.         *)
(* Exponents, inf, nan and digit separators are not written by the hosts   *)
(* and are not generated here.                                             *)
(***************************************************************************)
DigitVal == [c \in {"0", "1", "2", "3", "4", "5", "6", "7", "8", "9"} |->
    CASE c = "0" -> 0 [] c = "1" -> 1 [] c = "2" -> 2 [] c = "3" -> 3
      [] c = "4" -> 4 [] c = "5" -> 5 [] c = "6" -> 6 [] c = "7" -> 7
      [] c = "8" -> 8 [] c = "9" -> 9]

IsDigit(c) == c \in DOMAIN DigitVal

RECURSIVE DigitsValue(_)
DigitsValue(s) ==
    IF s = <<>> THEN 0
    ELSE DigitsValue(SubSeq(s, 1, Len(s) - 1)) * 10 + DigitVal[s[Len(s)]]

RECURSIVE Pow(_, _)
Pow(b, e) == IF e = 0 THEN 1 ELSE b * Pow(b, e - 1)

Unsigned(s) == IF s # <<>> /\ Head(s) \in {"-", "+"} THEN Tail(s) ELSE s
Negative(s) == s # <<>> /\ Head(s) = "-"

\* int(s) accepts a sign and digits
IsIntLiteral(s) ==
    LET u == Unsigned(Strip(s))
    IN  u # <<>> /\ \A i \in 1..Len(u) : IsDigit(u[i])

\* float(s) accepts a sign, digits and one point, with a digit somewhere
IsFloatLiteral(s) ==
    LET u == Unsigned(Strip(s))
        points == {i \in 1..Len(u) : u[i] = "."}
    IN  /\ \A i \in 1..Len(u) : IsDigit(u[i]) \/ u[i] = "."
        /\ Cardinality(points) <= 1
        /\ \E i \in 1..Len(u) : IsDigit(u[i])

\* int(float(s) * mult): the product truncated towards zero
ScaledInt(s, mult) ==
    LET u == Unsigned(Strip(s))
        p == Find(u, <<".">>)
        whole == IF p = 0 THEN u ELSE SubSeq(u, 1, p - 1)
        frac == IF p = 0 THEN <<>> ELSE SubSeq(u, p + 1, Len(u))
        num == DigitsValue(whole \o frac)
        mag == (num * mult) \div Pow(10, Len(frac))
    IN  IF Negative(Strip(s)) THEN 0 - mag ELSE mag

Kibi == 1024

\* IncrementalUpdater.parse_file_size
parse_file_size(size_str) ==
    IF ~Truthy(size_str) THEN 0
    ELSE LET s == Strip(Lower(size_str))
             kb == <<"k", "b">>
             mb == <<"m", "b">>
             gb == <<"g", "b">>
             bytes == <<"b", "y", "t", "e", "s">>
         IN  IF Contains(s, kb)
             THEN IF IsFloatLiteral(Remove(s, kb))
                  THEN ScaledInt(Remove(s, kb), Kibi) ELSE 0
             ELSE IF Contains(s, mb)
             THEN IF IsFloatLiteral(Remove(s, mb))
                  THEN ScaledInt(Remove(s, mb), Kibi * Kibi) ELSE 0
             ELSE IF Contains(s, gb)
             THEN IF IsFloatLiteral(Remove(s, gb))
                  THEN ScaledInt(Remove(s, gb), Kibi * Kibi * Kibi) ELSE 0
             ELSE IF Contains(s, bytes)
             THEN IF IsIntLiteral(Remove(s, bytes))
                  THEN ScaledInt(Remove(s, bytes), 1) ELSE 0
             ELSE IF IsFloatLiteral(s) THEN ScaledInt(s, 1) ELSE 0

(***************************************************************************)
(* The fleet and its artifacts.                                            *)
(***************************************************************************)
\* IncrementalUpdater.incremental_update_all: the fixed host list
servers == <<"ubuntu-server-1", "ubuntu-server-2", "ubuntu-server-3">>

ServerNames == {servers[i] : i \in 1..Len(servers)}

\* IncrementalUpdater.update_server_totals: server_ips.get(name, 'Unknown')
server_ips(name) ==
    CASE name = "ubuntu-server-1" -> "192.168.56.101"
      [] name = "ubuntu-server-2" -> "192.168.56.102"
      [] name = "ubuntu-server-3" -> "192.168.56.103"
      [] OTHER -> "Unknown"

SENT == <<"sent">>

\* A ledger row as csv.DictReader hands it over: a column the line does not
\* have is None.
FullRow(h, date, time, file, size) ==
    [timestamp |-> <<date, " ", time>>, hostname |-> <<h>>, action |-> SENT,
     target_servers |-> <<"ubuntu-server-2">>, file |-> <<file>>,
     status |-> <<"success">>, size |-> size]

ShortRow(h, date, time) ==
    [timestamp |-> <<date, " ", time>>, hostname |-> <<h>>, action |-> SENT,
     target_servers |-> None, file |-> None, status |-> None, size |-> None]

\* "2025-05-14 01:00:00,<h>,sent,ubuntu-server-2,report.txt,success,2 KB"
CompleteRow(h) ==
    FullRow(h, "2025-05-14", "01:00:00", "report.txt", <<"2", " ", "K", "B">>)

\* "2025-05-14 02:00:00,<h>,sent": a row cut after its action column
CutRow(h) == ShortRow(h, "2025-05-14", "02:00:00")

\* The rows a host may append to its ledger.
LedgerRows(h) == {CompleteRow(h), CutRow(h)}

\* Collation of the atoms that occur in timestamps (ASCII order).
Collation == <<" ", "01:00:00", "02:00:00", "2025-05-14">>

Rank(a) == CHOOSE i \in 1..Len(Collation) : Collation[i] = a

RECURSIVE StrLess(_, _)
\* a < b for two strings (not None)
StrLess(a, b) ==
    IF b = <<>> THEN FALSE
    ELSE IF a = <<>> THEN TRUE
    ELSE IF Head(a) = Head(b) THEN StrLess(Tail(a), Tail(b))
    ELSE Rank(Head(a)) < Rank(Head(b))

\* The lines of a received-file report.
HeaderLine == <<"Files Received:">>
FooterLine == <<"Total Files:", " ", "n">>

BYTES == <<"b", "y", "t", "e", "s">>

EntryLine(name, blob) == <<"-", " ">> \o name \o blob

\* The markers of a report entry "- <filename> (Size: <N> bytes, Date: <date>)"
SizeMark == <<" ", "(Size:", " ">>
DateMark == <<" ">> \o BYTES \o <<",", " ", "Date:", " ">>

\* "- from_ubuntu-server-2_20250514_010156.txt (Size: 931 bytes, Date: 
\*    2025-05-14 01:01:57.15534749Z +0000 UTC)"
GoodEntry ==
    EntryLine(<<"from", "_", "ubuntu-server-", "2", "_", "20250514", "_", "010156.txt">>,
              <<" ", "(Size:", " ", "9", "3", "1", " ">> \o BYTES \o
              <<",", " ", "Date:", " ", "2025-05-14", " ", "01:01:57", ".",
                "15534749Z", " ", "+0000", " ", "UTC", ")">>)

\* "- notes.txt": an entry with no size and date
BareEntry == EntryLine(<<"notes.txt">>, <<>>)

\* "- broken.txt (Size: 12 bytes, Date:)": the date marker with nothing after it
CutEntry ==
    EntryLine(<<"broken.txt">>,
              <<" ", "(Size:", " ", "1", "2", " ">> \o BYTES \o <<",", " ", "Date:", ")">>)

\* The entries a host may add to its report.
EntryLines == {GoodEntry, BareEntry, CutEntry}

(***************************************************************************)
(* Size fields.  A size that reads as a number has its text, the digits of *)
(* the number (num) and the count of digits after the point (scale); a     *)
(* unit has its text and the power of 1024 it stands for.                  *)
(***************************************************************************)
Number(text, num, scale) == [text |-> text, num |-> num, scale |-> scale]

SizeNumbers ==
    {Number(<<"1">>, 1, 0), Number(<<"2">>, 2, 0), Number(<<"9", "3", "1">>, 931, 0),
     Number(<<"1", ".", "5">>, 15, 1)}

Unit(text, power) == [text |-> text, power |-> power]

SizeUnits ==
    {Unit(<<"K", "B">>, 1), Unit(<<"k", "b">>, 1), Unit(<<"K", "b">>, 1),
     Unit(<<"M", "B">>, 2), Unit(<<"m", "b">>, 2),
     Unit(<<"G", "B">>, 3), Unit(<<"g", "b">>, 3),
     Unit(BYTES, 0), Unit(<<"B", "y", "t", "e", "s">>, 0), Unit(<<>>, 0)}

Pads == {<<>>, <<" ">>}

\* Counts of bytes are whole numbers, and sizes stay below 2 GB (the
\* integers of the model checker have 32 bits).
Sized(n, u) ==
    /\ u.power = 0 => n.scale = 0
    /\ u.power = 3 => n.num = 1 /\ n.scale = 0

\* The size fields that read as a number with or without a unit, in any
\* case and with blanks around and inside, each with the count of bytes it
\* stands for.
SizeCases ==
    {[size |-> c[3] \o c[1].text \o c[4] \o c[2].text \o c[5],
      value |-> (c[1].num * Pow(Kibi, c[2].power)) \div Pow(10, c[1].scale)] :
        c \in {d \in SizeNumbers \X SizeUnits \X Pads \X Pads \X Pads :
                  Sized(d[1], d[2])}}

GARBAGE == <<"g", "a", "r", "b", "a", "g", "e">>

\* Size fields that do not read as a size: the column is missing, empty,
\* not a number, a number with an unknown unit, a unit with no number.
UnparsedSizes ==
    {None, <<>>, GARBAGE, <<"5", " ", "T", "B">>, <<"a", "b", "c", " ", "K", "B">>,
     <<"1", ".", "2", ".", "3", " ", "M", "B">>, <<"K", "B">>, <<"x", " ">> \o BYTES}

SizeFields == {c.size : c \in SizeCases} \cup UnparsedSizes

\* "2025-05-14 01:00:00,<h>,sent,ubuntu-server-2,report.txt,success,<size>"
SizedRow(h, size) == FullRow(h, "2025-05-14", "01:00:00", "report.txt", size)

(***************************************************************************)
(* Ledgers and reports found at a start.                                   *)
(***************************************************************************)
\* "2025-05-14 01:00:00,<h>,received,ubuntu-server-2,inbox.txt,success,2 KB"
ReceivedRow(h) ==
    [FullRow(h, "2025-05-14", "01:00:00", "inbox.txt", <<"2", " ", "K", "B">>)
        EXCEPT !.action = <<"received">>]

\* ",<h>,sent,ubuntu-server-2,memo.txt,success,2 KB": no timestamp
UndatedRow(h) ==
    [FullRow(h, "2025-05-14", "01:00:00", "memo.txt", <<"2", " ", "K", "B">>)
        EXCEPT !.timestamp = <<>>]

\* The ledgers found at the start where reports are read: none, or one
\* whose latest row is not its last and whose last row is no 'sent' row,
\* or one whose only row has no timestamp.
MixedLedgers(h) ==
    {<<>>, <<CompleteRow(h), CutRow(h), ReceivedRow(h)>>, <<UndatedRow(h)>>}

FromName ==
    <<"from", "_", "ubuntu-server-", "2", "_", "20250514", "_", "010156.txt">>
PlainName == <<"report.txt">>

\* "- <name> (Size: <n> bytes, Date: 2025-05-14 <time>.<fraction><zone>)"
ShapedEntry(name, n, time, fraction, zone) ==
    EntryLine(name, SizeMark \o n \o DateMark
                    \o <<"2025-05-14", " ", time, ".", fraction>> \o zone \o <<")">>)

\* A time of day with its fraction, and the size of the file received then
Receipts ==
    {[time |-> "01:01:57", fraction |-> "15534749Z", size |-> Number(<<"9", "3", "1">>, 931, 0)],
     [time |-> "23:59:59", fraction |-> "5", size |-> Number(<<"1", "2">>, 12, 0)]}

Zones == {<<" ", "+0000", " ", "UTC">>, <<>>}

\* Entries of the full shape, each with the file name, the raw size, the
\* date and the count of bytes it states.
ShapedCases ==
    {[line |-> ShapedEntry(c[1], c[2].size.text, c[2].time, c[2].fraction, c[3]),
      filename |-> c[1],
      size |-> c[2].size.text \o <<" ">> \o BYTES,
      date |-> <<"2025-05-14", " ", c[2].time>>,
      bytes |-> c[2].size.num] :
        c \in {FromName, PlainName} \X Receipts \X Zones}

\* "- odd.bin (Size: abc bytes, Date: 2025-05-14 01:01:57.0)"
OddSizeEntry == ShapedEntry(<<"odd.bin">>, <<"a", "b", "c">>, "01:01:57", "0", <<>>)

\* The entries of the reports found at the start where reports are read
EntryKinds == {c.line : c \in ShapedCases} \cup {BareEntry, CutEntry, OddSizeEntry}

\* The sequences of one to n entries of the kinds given
EntrySeqs(kinds, n) == UNION {[1..m -> kinds] : m \in 1..n}

\* The report with the entries es in its files section
Report(es) == <<HeaderLine>> \o es \o <<FooterLine>>

(***************************************************************************)
(* The store (./data/monitor.db).                                          *)
(***************************************************************************)
\* IncrementalUpdater.init_incremental_tables: the four tables, dropped and
\* created again
NoRows == [k \in {} |-> {}]

EmptyTables ==
    [file_exchanges |-> <<>>, received_files |-> <<>>,
     file_checkpoints |-> NoRows, daily_activity |-> NoRows]

\* IncrementalUpdater.init_incremental_tables on an existing store
init_incremental_tables(db) ==
    [db EXCEPT !.file_exchanges = EmptyTables.file_exchanges,
               !.received_files = EmptyTables.received_files,
               !.file_checkpoints = EmptyTables.file_checkpoints,
               !.daily_activity = EmptyTables.daily_activity]

\* A table keyed by its primary key is a function on the keys present.
HasKey(tbl, k) == k \in DOMAIN tbl

Put(tbl, k, v) == [x \in (DOMAIN tbl) \cup {k} |-> IF x = k THEN v ELSE tbl[x]]

ZeroCheckpoint ==
    [last_history_line |-> 0, last_received_count |-> 0,
     total_processed_exchanges |-> 0, total_processed_received |-> 0]

\* IncrementalUpdater.get_checkpoint
get_checkpoint(db, server_name) ==
    IF HasKey(db.file_checkpoints, server_name)
    THEN db.file_checkpoints[server_name]
    ELSE ZeroCheckpoint

\* The checkpoint write left out: the store stays as it was.
NoCheckpoint(db, server_name, history_lines, received_count, total_exchanges, total_received) ==
    db

\* The checkpoint table rewritten to hold the written host alone.
checkpoint_alone(db, server_name, history_lines, received_count, total_exchanges, total_received) ==
    [db EXCEPT !.file_checkpoints =
        (server_name :>
            [last_history_line |-> history_lines,
             last_received_count |-> received_count,
             total_processed_exchanges |-> total_exchanges,
             total_processed_received |-> total_received])]

\* IncrementalUpdater.update_checkpoint
update_checkpoint(db, server_name, history_lines, received_count, total_exchanges, total_received) ==
    [db EXCEPT !.file_checkpoints =
        Put(@, server_name,
            [last_history_line |-> history_lines,
             last_received_count |-> received_count,
             total_processed_exchanges |-> total_exchanges,
             total_processed_received |-> total_received])]

\* UNIQUE(server_name, timestamp, filename, action): SQL NULLs never conflict
ExchangeConflict(r, x) ==
    /\ x.timestamp # None /\ x.filename # None /\ x.action # None
    /\ r.server_name = x.server_name
    /\ r.timestamp = x.timestamp
    /\ r.filename = x.filename
    /\ r.action = x.action

\* INSERT OR IGNORE INTO file_exchanges
InsertExchange(tbl, x) ==
    IF \E i \in 1..Len(tbl) : ExchangeConflict(tbl[i], x) THEN tbl
    ELSE Append(tbl, x)

\* UNIQUE(server_name, filename, received_date)
ReceivedConflict(r, x) ==
    /\ x.filename # None /\ x.received_date # None
    /\ r.server_name = x.server_name
    /\ r.filename = x.filename
    /\ r.received_date = x.received_date

\* INSERT OR IGNORE INTO received_files
InsertReceived(tbl, x) ==
    IF \E i \in 1..Len(tbl) : ReceivedConflict(tbl[i], x) THEN tbl
    ELSE Append(tbl, x)

ZeroActivity ==
    [files_sent |-> 0, files_received |-> 0,
     total_size_sent |-> 0, total_size_received |-> 0]

\* The aggregate overwritten with the last file instead of accumulated.
daily_activity_of_last(daily, date, server_name, action, file_size) ==
    LET k == <<date, server_name>>
        old == IF HasKey(daily, k) THEN daily[k] ELSE ZeroActivity
    IN  IF action = "sent"
        THEN Put(daily, k, [old EXCEPT !.files_sent = 1,
                                       !.total_size_sent = file_size])
        ELSE IF action = "received"
        THEN Put(daily, k, [old EXCEPT !.files_received = 1,
                                       !.total_size_received = file_size])
        ELSE daily

\* The aggregate written as a new row each time: the columns of the other
\* direction fall back to their defaults.
daily_activity_replaced(daily, date, server_name, action, file_size) ==
    LET k == <<date, server_name>>
        old == IF HasKey(daily, k) THEN daily[k] ELSE ZeroActivity
    IN  IF action = "sent"
        THEN Put(daily, k, [ZeroActivity EXCEPT
                               !.files_sent = old.files_sent + 1,
                               !.total_size_sent = old.total_size_sent + file_size])
        ELSE IF action = "received"
        THEN Put(daily, k, [ZeroActivity EXCEPT
                               !.files_received = old.files_received + 1,
                               !.total_size_received = old.total_size_received + file_size])
        ELSE daily

\* IncrementalUpdater.update_daily_activity
update_daily_activity(daily, date, server_name, action, file_size) ==
    LET k == <<date, server_name>>
        old == IF HasKey(daily, k) THEN daily[k] ELSE ZeroActivity
    IN  IF action = "sent"
        THEN Put(daily, k, [old EXCEPT !.files_sent = @ + 1,
                                       !.total_size_sent = @ + file_size])
        ELSE IF action = "received"
        THEN Put(daily, k, [old EXCEPT !.files_received = @ + 1,
                                       !.total_size_received = @ + file_size])
        ELSE daily

(***************************************************************************)
(* The two parse passes.  A pass works in one transaction: it either       *)
(* commits what it did to the tables or rolls all of it back.  fail = 0 is *)
(* a pass that reads its file to the end; fail = k > 0 is a pass whose     *)
(* read of line k raises (an I/O or decoding error).                       *)
(***************************************************************************)
ExchangeRecord(server_name, row) ==
    [server_name |-> server_name, timestamp |-> row.timestamp,
     hostname |-> row.hostname, action |-> row.action,
     target_servers |-> row.target_servers, filename |-> row.file,
     status |-> row.status, file_size |-> parse_file_size(row.size)]

\* The aggregate bumped for every row that has a timestamp, whatever its
\* action.
SentBumpAnyAction(st, server_name, row) ==
    IF Truthy(row.timestamp)
    THEN update_daily_activity(st.daily_activity,
                               Split(row.timestamp, <<" ">>)[1],
                               server_name, "sent", parse_file_size(row.size))
    ELSE st.daily_activity

\* process_history_file_incremental, lines 179-181
SentBump(st, server_name, row) ==
    IF Truthy(row.timestamp) /\ row.action = SENT
    THEN update_daily_activity(st.daily_activity,
                               Split(row.timestamp, <<" ">>)[1],
                               server_name, "sent", parse_file_size(row.size))
    ELSE st.daily_activity

\* The skip test off by one: the row at the checkpoint is read again.
SkipsBelow(current, last) == current < last

\* current_line <= last_processed_line, current_count <= last_received_count
Skips(current, last) == current <= last

\* The skip taken only for a row whose record the store holds: a row at or
\* before the checkpoint whose record is absent is inserted again.
HistoryStepReinserts(st, server_name, row, last_processed_line) ==
    LET current_line == st.current + 1
        held == \E i \in 1..Len(st.file_exchanges) :
                    ExchangeConflict(st.file_exchanges[i],
                                     ExchangeRecord(server_name, row))
    IN  IF Skips(current_line, last_processed_line) /\ held
        THEN [st EXCEPT !.current = current_line]
        ELSE [st EXCEPT
                !.current = current_line,
                !.file_exchanges = InsertExchange(@, ExchangeRecord(server_name, row)),
                !.new = @ + 1,
                !.daily_activity = SentBump(st, server_name, row)]

\* process_history_file_incremental: the body of the loop over the rows
HistoryStep(st, server_name, row, last_processed_line) ==
    LET current_line == st.current + 1
    IN  IF Skips(current_line, last_processed_line)
        THEN [st EXCEPT !.current = current_line]
        ELSE [st EXCEPT
                !.current = current_line,
                !.file_exchanges = InsertExchange(@, ExchangeRecord(server_name, row)),
                !.new = @ + 1,
                !.daily_activity = SentBump(st, server_name, row)]

RECURSIVE HistoryLoop(_, _, _, _, _)
HistoryLoop(st, server_name, rows, last_processed_line, n) ==
    IF n = 0 THEN st
    ELSE HistoryStep(HistoryLoop(st, server_name, rows, last_processed_line, n - 1),
                     server_name, rows[n], last_processed_line)

PassStart(db) ==
    [file_exchanges |-> db.file_exchanges, received_files |-> db.received_files,
     daily_activity |-> db.daily_activity, new |-> 0, current |-> 0,
     in_files_section |-> FALSE]

\* conn.commit(): the tables of the pass become the tables of the store
Commit(db, st) ==
    [db EXCEPT !.file_exchanges = st.file_exchanges,
               !.received_files = st.received_files,
               !.daily_activity = st.daily_activity]

PassResult(db, new, current) == [db |-> db, new |-> new, current |-> current]

\* The aggregator committing on its own: what it added stays when the
\* pass rolls back.
PassEndKeepsDaily(db, st, fail) ==
    IF fail = 0 THEN PassResult(Commit(db, st), st.new, st.current)
    ELSE PassResult([db EXCEPT !.daily_activity = st.daily_activity],
                    st.new, st.current)

\* The end of a pass: conn.commit() after the last line, or the except
\* branch (conn.rollback()) where a read raised; both return the counters.
PassEnd(db, st, fail) ==
    IF fail = 0 THEN PassResult(Commit(db, st), st.new, st.current)
    ELSE PassResult(db, st.new, st.current)

\* parse_file_size without its except branch: the first row after the
\* checkpoint whose size does not read as a size raises in the pass.
HistoryPassSizeRaises(db, server_name, exists, rows, last_processed_line, fail) ==
    LET bad == {k \in (last_processed_line + 1)..Len(rows) :
                   rows[k].size \in UnparsedSizes \ {None, <<>>}}
        first == IF bad = {} THEN 0 ELSE CHOOSE k \in bad : \A j \in bad : k <= j
        f == IF fail # 0 THEN fail ELSE first
    IN  IF ~exists THEN PassResult(db, 0, 0)
        ELSE PassEnd(db,
                     HistoryLoop(PassStart(db), server_name, rows, last_processed_line,
                                 IF f = 0 THEN Len(rows) ELSE f - 1),
                     f)

\* process_history_file_incremental from the open of the file on: exists is
\* whether the file is (still) there, rows its data rows
HistoryPass(db, server_name, exists, rows, last_processed_line, fail) ==
    IF ~exists THEN PassResult(db, 0, 0)
    ELSE PassEnd(db,
                 HistoryLoop(PassStart(db), server_name, rows, last_processed_line,
                             IF fail = 0 THEN Len(rows) ELSE fail - 1),
                 fail)

\* What an entry line says; raised is the IndexError of split("Date: ")[1]
Entry(filename, source_server, file_size_str, received_date, raised) ==
    [filename |-> filename, source_server |-> source_server,
     file_size_str |-> file_size_str, received_date |-> received_date,
     raised |-> raised]

\* process_received_summary_incremental, lines 233-241
SourceServer(filename) ==
    IF StartsWith(filename, <<"from", "_", "ubuntu-server-">>)
       /\ Contains(filename, <<"_">>)
       /\ Len(Split(filename, <<"_">>)) >= 3
    THEN <<"ubuntu-server-">> \o Split(filename, <<"_">>)[3]
    ELSE <<"unknown">>

\* process_received_summary_incremental, lines 229-259
ParseEntry(line) ==
    LET parts == Split(SubSeq(line, 3, Len(line)), <<" ", "(Size:", " ">>)
        filename == Strip(parts[1])
        source_server == SourceServer(filename)
        size_and_date == parts[2]
        marked == Len(parts) > 1
                  /\ Contains(size_and_date, BYTES \o <<",", " ", "Date:">>)
        size_part == Strip(Split(size_and_date,
                                 <<" ">> \o BYTES \o <<",", " ", "Date:">>)[1])
        dated == Split(size_and_date, <<"Date:", " ">>)
        date_part == RStripChar(Strip(dated[2]), ")")
        words == Split(date_part, <<" ">>)
    IN  IF ~marked THEN Entry(filename, source_server, <<>>, <<>>, FALSE)
        ELSE IF Len(dated) < 2
        THEN Entry(filename, source_server, <<>>, <<>>, TRUE)
        ELSE Entry(filename, source_server, size_part \o <<" ">> \o BYTES,
                   IF Contains(date_part, <<" ">>)
                   THEN words[1] \o <<" ">> \o Split(words[2], <<".">>)[1]
                   ELSE <<>>,
                   FALSE)

\* The received date cut at its first blank: the day without the time.
ReceivedRecordDateOnly(server_name, e) ==
    [server_name |-> server_name, filename |-> e.filename,
     source_server |-> e.source_server,
     received_date |-> Split(e.received_date, <<" ">>)[1],
     file_size |-> e.file_size_str]

ReceivedRecord(server_name, e) ==
    [server_name |-> server_name, filename |-> e.filename,
     source_server |-> e.source_server, received_date |-> e.received_date,
     file_size |-> e.file_size_str]

\* process_received_summary_incremental, lines 272-274
ReceivedBump(st, server_name, e) ==
    IF Truthy(e.received_date)
    THEN update_daily_activity(st.daily_activity,
                               Split(e.received_date, <<" ">>)[1],
                               server_name, "received",
                               parse_file_size(e.file_size_str))
    ELSE st.daily_activity

\* process_received_summary_incremental, lines 222-281: an entry line of
\* the files section, e what the line says
EntryStep(st, server_name, e, last_received_count) ==
    LET current_count == st.current + 1
    IN  IF Skips(current_count, last_received_count) \/ e.raised
        THEN [st EXCEPT !.current = current_count]
        ELSE [st EXCEPT
                !.current = current_count,
                !.received_files = InsertReceived(@, ReceivedRecord(server_name, e)),
                !.new = @ + 1,
                !.daily_activity = ReceivedBump(st, server_name, e)]

\* The classifier without its state: a "- " line counts wherever it stands.
SummaryStepAnywhere(st, server_name, raw, last_received_count) ==
    LET line == Strip(raw)
    IN  IF Contains(line, <<"Files Received:">>)
        THEN [st EXCEPT !.in_files_section = TRUE]
        ELSE IF StartsWith(line, <<"-", " ">>)
        THEN EntryStep(st, server_name, ParseEntry(line), last_received_count)
        ELSE IF st.in_files_section /\ StartsWith(line, <<"Total Files:">>)
        THEN [st EXCEPT !.in_files_section = FALSE]
        ELSE st

\* process_received_summary_incremental: the body of the loop over the lines
SummaryStep(st, server_name, raw, last_received_count) ==
    LET line == Strip(raw)
    IN  IF Contains(line, <<"Files Received:">>)
        THEN [st EXCEPT !.in_files_section = TRUE]
        ELSE IF st.in_files_section /\ StartsWith(line, <<"-", " ">>)
        THEN EntryStep(st, server_name, ParseEntry(line), last_received_count)
        ELSE IF st.in_files_section /\ StartsWith(line, <<"Total Files:">>)
        THEN [st EXCEPT !.in_files_section = FALSE]
        ELSE st

RECURSIVE SummaryLoop(_, _, _, _, _)
SummaryLoop(st, server_name, lines, last_received_count, n) ==
    IF n = 0 THEN st
    ELSE SummaryStep(SummaryLoop(st, server_name, lines, last_received_count, n - 1),
                     server_name, lines[n], last_received_count)

\* process_received_summary_incremental from the open of the file on
SummaryPass(db, server_name, exists, lines, last_received_count, fail) ==
    IF ~exists THEN PassResult(db, 0, 0)
    ELSE PassEnd(db,
                 SummaryLoop(PassStart(db), server_name, lines, last_received_count,
                             IF fail = 0 THEN Len(lines) ELSE fail - 1),
                 fail)

\* IncrementalUpdater.update_server_totals: ORDER BY timestamp DESC LIMIT 1;
\* NULL sorts below every string
Latest(ts) ==
    IF ts = {} THEN None
    ELSE CHOOSE t \in ts : \A u \in ts :
             u = t \/ u = None \/ (t # None /\ StrLess(u, t))

\* The counts taken from the running totals of the checkpoint instead of
\* the record tables.
totals_from_checkpoint(db, server_name) ==
    LET mine == {i \in 1..Len(db.file_exchanges) :
                    db.file_exchanges[i].server_name = server_name}
    IN  [db EXCEPT !.servers =
            Put(@, server_name,
                [ip |-> server_ips(server_name),
                 sent |-> get_checkpoint(db, server_name).total_processed_exchanges,
                 received |-> get_checkpoint(db, server_name).total_processed_received,
                 last_update |-> Latest({db.file_exchanges[i].timestamp : i \in mine})])]

\* IncrementalUpdater.update_server_totals
update_server_totals(db, server_name) ==
    LET mine == {i \in 1..Len(db.file_exchanges) :
                    db.file_exchanges[i].server_name = server_name}
        sent_count == Cardinality({i \in mine : db.file_exchanges[i].action = SENT})
        received_count == Cardinality({i \in 1..Len(db.received_files) :
                              db.received_files[i].server_name = server_name})
        last_exchange == Latest({db.file_exchanges[i].timestamp : i \in mine})
    IN  [db EXCEPT !.servers =
            Put(@, server_name,
                [ip |-> server_ips(server_name), sent |-> sent_count,
                 received |-> received_count, last_update |-> last_exchange])]

(***************************************************************************)
(* State.                                                                  *)
(***************************************************************************)
VARIABLES
    logs_dir,        \* host -> ./exchange_results/<host>/logs exists
    history_file,    \* host -> the data rows of the host's history.csv
    history_exists,  \* host -> the local copy of history.csv exists
    summary_file,    \* host -> the lines of the host's received_summary.txt
    summary_exists,  \* host -> the local copy of received_summary.txt exists
    db,              \* the tables of ./data/monitor.db
    up,              \* the process is running
    pc,              \* caller -> where its incremental_update_all stands
    frame,           \* caller -> the local variables of its cycle
    cycles,          \* cycles started so far
    obs              \* what an observer of the runs has noted (no program state)

files == <<logs_dir, history_file, history_exists, summary_file, summary_exists>>
vars == <<logs_dir, history_file, history_exists, summary_file, summary_exists,
          db, up, pc, frame, cycles, obs>>

\* The threads that call incremental_update_all: a request to
\* /api/incremental-update, and the collection thread (periodic or started
\* by /api/collect).
Callers == {"request", "collection"}

ZeroFrame ==
    [i |-> 0, last |-> 0,
     new_exchanges |-> 0, history_lines |-> 0,
     new_received |-> 0, received_count |-> 0,
     total_exchanges |-> 0, total_received |-> 0,
     total_updates |-> [new_exchanges |-> 0, new_received |-> 0,
                        total_historical |-> 0]]

\* app_collector.init_db followed by IncrementalUpdater construction
Init ==
    /\ logs_dir = [h \in ServerNames |-> FALSE]
    /\ history_file = [h \in ServerNames |-> <<>>]
    /\ history_exists = [h \in ServerNames |-> FALSE]
    /\ summary_file = [h \in ServerNames |-> <<>>]
    /\ summary_exists = [h \in ServerNames |-> FALSE]
    /\ db = [file_exchanges |-> EmptyTables.file_exchanges,
             received_files |-> EmptyTables.received_files,
             file_checkpoints |-> EmptyTables.file_checkpoints,
             daily_activity |-> EmptyTables.daily_activity,
             servers |-> NoRows, metadata |-> FALSE]
    /\ up = TRUE
    /\ pc = [t \in Callers |-> "idle"]
    /\ frame = [t \in Callers |-> ZeroFrame]
    /\ cycles = 0
    /\ obs = [prev |-> <<>>, entry |-> <<>>, expect |-> <<>>]

Server(t) == servers[frame[t].i]

(***************************************************************************)
(* The hosts and the collector (ssh_collector.py) change the artifacts.    *)
(***************************************************************************)
RECURSIVE Total(_, _)
Total(f, S) ==
    IF S = {} THEN 0
    ELSE LET x == CHOOSE y \in S : TRUE IN f[x] + Total(f, S \ {x})

RowsWritten == Total([h \in ServerNames |-> Len(history_file[h])], ServerNames)

IsEntry(line) == StartsWith(line, <<"-", " ">>)

EntriesOf(lines) == Cardinality({i \in 1..Len(lines) : IsEntry(lines[i])})

EntriesWritten ==
    Total([h \in ServerNames |-> EntriesOf(summary_file[h])], ServerNames)

\* A host appends a row to its ledger and the collector downloads the file.
AppendRow(h, row) ==
    /\ RowsWritten < MaxRows
    /\ history_file' = [history_file EXCEPT ![h] = Append(@, row)]
    /\ history_exists' = [history_exists EXCEPT ![h] = TRUE]
    /\ logs_dir' = [logs_dir EXCEPT ![h] = TRUE]
    /\ UNCHANGED <<summary_file, summary_exists, db, up, pc, frame, cycles>>

\* The report with one more entry in its files section
WithEntry(lines, e) ==
    IF lines = <<>> THEN <<HeaderLine, e, FooterLine>>
    ELSE SubSeq(lines, 1, Len(lines) - 1) \o <<e, FooterLine>>

\* A host adds an entry to a report of fewer than n entries and the
\* collector downloads the file.
GrowReport(h, e, n) ==
    /\ EntriesOf(summary_file[h]) < n
    /\ summary_file' = [summary_file EXCEPT ![h] = WithEntry(@, e)]
    /\ summary_exists' = [summary_exists EXCEPT ![h] = TRUE]
    /\ logs_dir' = [logs_dir EXCEPT ![h] = TRUE]
    /\ UNCHANGED <<history_file, history_exists, db, up, pc, frame, cycles>>

\* A host adds an entry to its report and the collector downloads the file.
AddEntry(h, e) ==
    /\ EntriesWritten < MaxEntries
    /\ summary_file' = [summary_file EXCEPT ![h] = WithEntry(@, e)]
    /\ summary_exists' = [summary_exists EXCEPT ![h] = TRUE]
    /\ logs_dir' = [logs_dir EXCEPT ![h] = TRUE]
    /\ UNCHANGED <<history_file, history_exists, db, up, pc, frame, cycles>>

\* SSHLogCollector.download_file_with_backup: the local file is renamed to a
\* backup and sftp.get fails
LoseHistory(h) ==
    /\ history_exists[h]
    /\ history_exists' = [history_exists EXCEPT ![h] = FALSE]
    /\ UNCHANGED <<logs_dir, history_file, summary_file, summary_exists,
                   db, up, pc, frame, cycles>>

\* SSHLogCollector.download_file_with_backup: a later download succeeds
FetchHistory(h) ==
    /\ logs_dir[h] /\ ~history_exists[h] /\ history_file[h] # <<>>
    /\ history_exists' = [history_exists EXCEPT ![h] = TRUE]
    /\ UNCHANGED <<logs_dir, history_file, summary_file, summary_exists,
                   db, up, pc, frame, cycles>>

\* The directory exchange_results/<h>/logs is no longer there when the
\* updater looks for it (removed, or the process runs in another directory).
RemoveLogs(h) ==
    /\ logs_dir[h]
    /\ logs_dir' = [logs_dir EXCEPT ![h] = FALSE]
    /\ history_exists' = [history_exists EXCEPT ![h] = FALSE]
    /\ summary_exists' = [summary_exists EXCEPT ![h] = FALSE]
    /\ UNCHANGED <<history_file, summary_file, db, up, pc, frame, cycles>>

LoseSummary(h) ==
    /\ summary_exists[h]
    /\ summary_exists' = [summary_exists EXCEPT ![h] = FALSE]
    /\ UNCHANGED <<logs_dir, history_file, history_exists, summary_file,
                   db, up, pc, frame, cycles>>

FetchSummary(h) ==
    /\ logs_dir[h] /\ ~summary_exists[h] /\ summary_file[h] # <<>>
    /\ summary_exists' = [summary_exists EXCEPT ![h] = TRUE]
    /\ UNCHANGED <<logs_dir, history_file, history_exists, summary_file,
                   db, up, pc, frame, cycles>>

(***************************************************************************)
(* One cycle: incremental_update_all over the hosts, and for each host     *)
(* incremental_update_server.                                              *)
(***************************************************************************)
Goto(t, label) == pc' = [pc EXCEPT ![t] = label]

\* incremental_update_all: the loop moves to the next host, or leaves
NextServer(t, updates) ==
    IF frame[t].i < Len(servers)
    THEN /\ Goto(t, "server")
         /\ frame' = [frame EXCEPT ![t] =
                [ZeroFrame EXCEPT !.i = frame[t].i + 1, !.total_updates = updates]]
    ELSE /\ Goto(t, "metadata")
         /\ frame' = [frame EXCEPT ![t] = [ZeroFrame EXCEPT !.total_updates = updates]]

\* incremental_update_all, lines 392-394
Accumulate(updates, result) ==
    [new_exchanges |-> updates.new_exchanges + result.new_exchanges,
     new_received |-> updates.new_received + result.new_received,
     total_historical |-> updates.total_historical
                          + result.total_exchanges + result.total_received]

\* A caller enters incremental_update_all.  alone: no other cycle is running.
Start(t, alone) ==
    /\ up /\ pc[t] = "idle" /\ cycles < MaxCycles
    /\ alone => \A u \in Callers : pc[u] = "idle"
    /\ Goto(t, "server")
    /\ frame' = [frame EXCEPT ![t] = [ZeroFrame EXCEPT !.i = 1]]
    /\ cycles' = cycles + 1
    /\ UNCHANGED <<files, db, up>>

\* The host without a logs directory treated as a host with no data: its
\* checkpoint is written back as zeros.
EnterServerResets(t) ==
    /\ pc[t] = "server"
    /\ IF logs_dir[Server(t)]
       THEN Goto(t, "history") /\ UNCHANGED <<frame, db>>
       ELSE /\ NextServer(t, Accumulate(frame[t].total_updates,
                   [new_exchanges |-> 0, new_received |-> 0,
                    total_exchanges |-> 0, total_received |-> 0]))
            /\ db' = update_checkpoint(db, Server(t), 0, 0, 0, 0)
    /\ UNCHANGED <<files, up, cycles>>

\* incremental_update_server, lines 318-323
EnterServer(t) ==
    /\ pc[t] = "server"
    /\ IF logs_dir[Server(t)]
       THEN Goto(t, "history") /\ UNCHANGED frame
       ELSE NextServer(t, Accumulate(frame[t].total_updates,
                [new_exchanges |-> 0, new_received |-> 0,
                 total_exchanges |-> 0, total_received |-> 0]))
    /\ UNCHANGED <<files, db, up, cycles>>

\* The existence test left out: the absent ledger is opened, the error
\* leaves incremental_update_server and the host's cycle ends there.
MissingHistoryRaises(t) ==
    /\ pc[t] = "history"
    /\ IF history_exists[Server(t)]
       THEN /\ Goto(t, "history_run")
            /\ frame' = [frame EXCEPT ![t].last =
                            get_checkpoint(db, Server(t)).last_history_line]
       ELSE NextServer(t, frame[t].total_updates)
    /\ UNCHANGED <<files, db, up, cycles>>

\* process_history_file_incremental, lines 139-144
HistoryBegin(t) ==
    /\ pc[t] = "history"
    /\ IF history_exists[Server(t)]
       THEN /\ Goto(t, "history_run")
            /\ frame' = [frame EXCEPT ![t].last =
                            get_checkpoint(db, Server(t)).last_history_line]
       ELSE /\ Goto(t, "summary")
            /\ frame' = [frame EXCEPT ![t].new_exchanges = 0,
                                      ![t].history_lines = 0]
    /\ UNCHANGED <<files, db, up, cycles>>

\* The ledger pass writing the checkpoint itself, before the summary pass.
HistoryRunWritesCheckpoint(t, fail) ==
    /\ pc[t] = "history_run"
    /\ fail <= Len(history_file[Server(t)]) + 1
    /\ \E r \in {HistoryPass(db, Server(t), history_exists[Server(t)],
                             history_file[Server(t)], frame[t].last, fail)} :
           /\ db' = update_checkpoint(r.db, Server(t), r.current,
                        get_checkpoint(r.db, Server(t)).last_received_count,
                        get_checkpoint(r.db, Server(t)).total_processed_exchanges + r.new,
                        get_checkpoint(r.db, Server(t)).total_processed_received)
           /\ frame' = [frame EXCEPT ![t].last = 0,
                                     ![t].new_exchanges = r.new,
                                     ![t].history_lines = r.current]
    /\ Goto(t, "summary")
    /\ UNCHANGED <<files, up, cycles>>

\* process_history_file_incremental, lines 146-194
HistoryRun(t, fail) ==
    /\ pc[t] = "history_run"
    /\ fail <= Len(history_file[Server(t)]) + 1
    /\ \E r \in {HistoryPass(db, Server(t), history_exists[Server(t)],
                             history_file[Server(t)], frame[t].last, fail)} :
           /\ db' = r.db
           /\ frame' = [frame EXCEPT ![t].last = 0,
                                     ![t].new_exchanges = r.new,
                                     ![t].history_lines = r.current]
    /\ Goto(t, "summary")
    /\ UNCHANGED <<files, up, cycles>>

\* The summary pass started without the checkpoint: it counts from zero.
SummaryBeginFromZero(t) ==
    /\ pc[t] = "summary"
    /\ IF summary_exists[Server(t)]
       THEN /\ Goto(t, "summary_run")
            /\ frame' = [frame EXCEPT ![t].last = 0]
       ELSE /\ Goto(t, "checkpoint")
            /\ frame' = [frame EXCEPT ![t].new_received = 0,
                                      ![t].received_count = 0]
    /\ UNCHANGED <<files, db, up, cycles>>

\* process_received_summary_incremental, lines 198-203
SummaryBegin(t) ==
    /\ pc[t] = "summary"
    /\ IF summary_exists[Server(t)]
       THEN /\ Goto(t, "summary_run")
            /\ frame' = [frame EXCEPT ![t].last =
                            get_checkpoint(db, Server(t)).last_received_count]
       ELSE /\ Goto(t, "checkpoint")
            /\ frame' = [frame EXCEPT ![t].new_received = 0,
                                      ![t].received_count = 0]
    /\ UNCHANGED <<files, db, up, cycles>>

\* process_received_summary_incremental, lines 205-292
SummaryRun(t, fail) ==
    /\ pc[t] = "summary_run"
    /\ fail <= Len(summary_file[Server(t)]) + 1
    /\ \E r \in {SummaryPass(db, Server(t), summary_exists[Server(t)],
                             summary_file[Server(t)], frame[t].last, fail)} :
           /\ db' = r.db
           /\ frame' = [frame EXCEPT ![t].last = 0,
                                     ![t].new_received = r.new,
                                     ![t].received_count = r.current]
    /\ Goto(t, "checkpoint")
    /\ UNCHANGED <<files, up, cycles>>

\* incremental_update_server, lines 330-332
GetCheckpoint(t) ==
    /\ pc[t] = "checkpoint"
    /\ LET checkpoint == get_checkpoint(db, Server(t))
       IN  frame' = [frame EXCEPT
              ![t].total_exchanges =
                  checkpoint.total_processed_exchanges + frame[t].new_exchanges,
              ![t].total_received =
                  checkpoint.total_processed_received + frame[t].new_received]
    /\ Goto(t, "update_checkpoint")
    /\ UNCHANGED <<files, db, up, cycles>>

\* incremental_update_server, line 334
UpdateCheckpoint(t) ==
    /\ pc[t] = "update_checkpoint"
    /\ db' = update_checkpoint(db, Server(t), frame[t].history_lines,
                               frame[t].received_count,
                               frame[t].total_exchanges, frame[t].total_received)
    /\ Goto(t, "totals")
    /\ UNCHANGED <<files, frame, up, cycles>>

\* incremental_update_server, lines 335-342, and the caller's sums
UpdateTotals(t) ==
    /\ pc[t] = "totals"
    /\ db' = update_server_totals(db, Server(t))
    /\ NextServer(t, Accumulate(frame[t].total_updates,
            [new_exchanges |-> frame[t].new_exchanges,
             new_received |-> frame[t].new_received,
             total_exchanges |-> frame[t].total_exchanges,
             total_received |-> frame[t].total_received]))
    /\ UNCHANGED <<files, up, cycles>>

\* Where a statement of incremental_update_server outside any try block
\* can raise: the store is locked or unavailable.
ErrorPoints == {"history", "summary", "checkpoint", "update_checkpoint", "totals"}

\* No except branch around the host: the exception leaves
\* incremental_update_all and the cycle ends there.
Uncaught(t) ==
    /\ Goto(t, "idle")
    /\ frame' = [frame EXCEPT ![t] = ZeroFrame]

\* incremental_update_all, lines 398-399: the exception of one host is
\* logged and the loop goes on
Caught(t) == NextServer(t, frame[t].total_updates)

\* A statement of incremental_update_server raises.
StoreError(t) ==
    /\ pc[t] \in ErrorPoints
    /\ Caught(t)
    /\ UNCHANGED <<files, db, up, cycles>>

\* incremental_update_all, lines 401-412
WriteMetadata(t) ==
    /\ pc[t] = "metadata"
    /\ db' = [db EXCEPT !.metadata = TRUE]
    /\ Goto(t, "done")
    /\ UNCHANGED <<files, frame, up, cycles>>

\* The caller has the returned total_updates and goes back to waiting.
Return(t) ==
    /\ pc[t] = "done"
    /\ Goto(t, "idle")
    /\ frame' = [frame EXCEPT ![t] = ZeroFrame]
    /\ UNCHANGED <<files, db, up, cycles>>

(***************************************************************************)
(* The process dies and is started again.                                  *)
(***************************************************************************)
Crash ==
    /\ up
    /\ up' = FALSE
    /\ pc' = [t \in Callers |-> "idle"]
    /\ frame' = [t \in Callers |-> ZeroFrame]
    /\ UNCHANGED <<files, db, cycles>>

\* app_collector: updater = IncrementalUpdater(DB_PATH), then init_db()
Restart ==
    /\ ~up
    /\ up' = TRUE
    /\ db' = init_incremental_tables(db)
    /\ UNCHANGED <<files, pc, frame, cycles>>

\* No cycle is running.
Quiet == \A t \in Callers : pc[t] = "idle"

\* incremental_update_server, lines 330-335, after the passes left h and r
AfterSummary(s, h, r) ==
    update_server_totals(
        update_checkpoint(r.db, s, h.current, r.current,
            get_checkpoint(r.db, s).total_processed_exchanges + h.new,
            get_checkpoint(r.db, s).total_processed_received + r.new), s)

\* incremental_update_server, lines 327-335, after the history pass left h
AfterHistory(s, h) ==
    AfterSummary(s, h,
        SummaryPass(h.db, s, summary_exists[s], summary_file[s],
                    get_checkpoint(h.db, s).last_received_count, 0))

\* incremental_update_server run to its end on the tables d, as one step
ServerCycle(d, s) ==
    IF ~logs_dir[s] THEN d
    ELSE AfterHistory(s,
             HistoryPass(d, s, history_exists[s], history_file[s],
                         get_checkpoint(d, s).last_history_line, 0))

(***************************************************************************)
(* The observer.  It notes the tables a finished cycle left (prev), the    *)
(* tables a host's cycle started from (entry) and, when the process dies   *)
(* inside a host's cycle, the tables that cycle would have left (expect).  *)
(* A change of the artifacts voids prev and expect.                        *)
(***************************************************************************)
Tables(d) ==
    [file_exchanges |-> d.file_exchanges, received_files |-> d.received_files,
     file_checkpoints |-> d.file_checkpoints, daily_activity |-> d.daily_activity]

InServer == {"history", "history_run", "summary", "summary_run",
             "checkpoint", "update_checkpoint", "totals"}

ObservePrev ==
    obs' = IF files' # files \/ up' # up THEN [obs EXCEPT !.prev = <<>>]
           ELSE IF \E t \in Callers : pc[t] = "done" /\ pc'[t] = "idle"
           THEN [obs EXCEPT !.prev = <<Tables(db)>>]
           ELSE obs

\* The host s has just been left by the loop of caller t.
Left(t, s) ==
    \/ pc[t] = "server" /\ frame[t].i > 1 /\ servers[frame[t].i - 1] = s
    \/ pc[t] = "metadata" /\ servers[Len(servers)] = s

ObserveCrash ==
    obs' = IF files' # files THEN [obs EXCEPT !.expect = <<>>]
           ELSE IF up /\ ~up'
           THEN IF \E t \in Callers : pc[t] \in InServer
                THEN LET t == CHOOSE u \in Callers : pc[u] \in InServer
                     IN  [obs EXCEPT
                            !.entry = <<>>,
                            !.expect = <<[server |-> Server(t),
                                          db |-> ServerCycle(obs.entry[1], Server(t))]>>]
                ELSE [obs EXCEPT !.entry = <<>>, !.expect = <<>>]
           ELSE IF \E t \in Callers : pc[t] = "server" /\ pc'[t] = "history"
           THEN [obs EXCEPT !.entry = <<db>>]
           ELSE IF obs.expect # <<>>
                   /\ \E t \in Callers : Left(t, obs.expect[1].server)
           THEN [obs EXCEPT !.expect = <<>>]
           ELSE obs

(***************************************************************************)
(* Specifications.                                                         *)
(***************************************************************************)
\* The host the collector reaches where it reaches one; the host before it
\* and the host after it in the list have no logs directory.
Reached == {servers[2]}

\* Cycles one after the other, none meeting an error, over artifacts that
\* change between cycles.
NextSeq ==
    \/ \E h \in Reached : \E row \in LedgerRows(h) :
          Quiet /\ AppendRow(h, row) /\ ObservePrev
    \/ \E h \in Reached : \E e \in EntryLines :
          Quiet /\ AddEntry(h, e) /\ ObservePrev
    \/ \E h \in Reached : Quiet /\ LoseHistory(h) /\ ObservePrev
    \/ \E h \in Reached : Quiet /\ FetchHistory(h) /\ ObservePrev
    \/ \E h \in Reached : Quiet /\ LoseSummary(h) /\ ObservePrev
    \/ \E h \in Reached : Quiet /\ FetchSummary(h) /\ ObservePrev
    \/ Start("request", TRUE) /\ ObservePrev
    \/ EnterServer("request") /\ ObservePrev
    \/ HistoryBegin("request") /\ ObservePrev
    \/ HistoryRun("request", 0) /\ ObservePrev
    \/ SummaryBegin("request") /\ ObservePrev
    \/ SummaryRun("request", 0) /\ ObservePrev
    \/ GetCheckpoint("request") /\ ObservePrev
    \/ UpdateCheckpoint("request") /\ ObservePrev
    \/ UpdateTotals("request") /\ ObservePrev
    \/ WriteMetadata("request") /\ ObservePrev
    \/ Return("request") /\ ObservePrev

SpecSeq == Init /\ [][NextSeq]_vars

\* As SpecSeq, and the process may die at any moment and be started again.
NextCrash ==
    \/ \E h \in Reached : \E row \in LedgerRows(h) :
          Quiet /\ AppendRow(h, row) /\ ObserveCrash
    \/ \E h \in Reached : \E e \in EntryLines :
          Quiet /\ AddEntry(h, e) /\ ObserveCrash
    \/ \E h \in Reached : Quiet /\ LoseHistory(h) /\ ObserveCrash
    \/ \E h \in Reached : Quiet /\ FetchHistory(h) /\ ObserveCrash
    \/ \E h \in Reached : Quiet /\ LoseSummary(h) /\ ObserveCrash
    \/ \E h \in Reached : Quiet /\ FetchSummary(h) /\ ObserveCrash
    \/ Start("request", TRUE) /\ ObserveCrash
    \/ EnterServer("request") /\ ObserveCrash
    \/ HistoryBegin("request") /\ ObserveCrash
    \/ HistoryRun("request", 0) /\ ObserveCrash
    \/ SummaryBegin("request") /\ ObserveCrash
    \/ SummaryRun("request", 0) /\ ObserveCrash
    \/ GetCheckpoint("request") /\ ObserveCrash
    \/ UpdateCheckpoint("request") /\ ObserveCrash
    \/ UpdateTotals("request") /\ ObserveCrash
    \/ WriteMetadata("request") /\ ObserveCrash
    \/ Return("request") /\ ObserveCrash
    \/ Crash /\ ObserveCrash
    \/ Restart /\ ObserveCrash

SpecCrash == Init /\ [][NextCrash]_vars

\* One caller whose cycles meet errors: a pass whose read of line k raises,
\* a statement outside the passes that raises.  The collector reaches the
\* first two hosts: one has a ledger of complete rows, the other a report
\* of well-formed entries, both written before the first cycle.
NextFault ==
    \/ cycles = 0 /\ AppendRow(servers[1], CompleteRow(servers[1])) /\ UNCHANGED obs
    \/ cycles = 0 /\ AddEntry(servers[2], GoodEntry) /\ UNCHANGED obs
    \/ cycles < MaxFaultCycles /\ Start("request", TRUE) /\ UNCHANGED obs
    \/ EnterServer("request") /\ UNCHANGED obs
    \/ HistoryBegin("request") /\ UNCHANGED obs
    \/ HistoryRun("request", 0) /\ UNCHANGED obs
    \/ SummaryBegin("request") /\ UNCHANGED obs
    \/ SummaryRun("request", 0) /\ UNCHANGED obs
    \/ GetCheckpoint("request") /\ UNCHANGED obs
    \/ UpdateCheckpoint("request") /\ UNCHANGED obs
    \/ UpdateTotals("request") /\ UNCHANGED obs
    \/ WriteMetadata("request") /\ UNCHANGED obs
    \/ Return("request") /\ UNCHANGED obs
    \/ \E k \in 1..(MaxRows + 1) : HistoryRun("request", k) /\ UNCHANGED obs
    \/ \E k \in 1..(MaxEntries + 3) : SummaryRun("request", k) /\ UNCHANGED obs
    \/ StoreError("request") /\ UNCHANGED obs

SpecFault == Init /\ [][NextFault]_vars

\* Two callers whose cycles may overlap, over artifacts that change between
\* cycles.
Next ==
    \/ \E row \in LedgerRows(servers[2]) :
          Quiet /\ AppendRow(servers[2], row) /\ UNCHANGED obs
    \/ \E e \in EntryLines :
          Quiet /\ AddEntry(servers[2], e) /\ UNCHANGED obs
    \/ \E t \in Callers : Start(t, FALSE) /\ UNCHANGED obs
    \/ \E t \in Callers : EnterServer(t) /\ UNCHANGED obs
    \/ \E t \in Callers : HistoryBegin(t) /\ UNCHANGED obs
    \/ \E t \in Callers : HistoryRun(t, 0) /\ UNCHANGED obs
    \/ \E t \in Callers : SummaryBegin(t) /\ UNCHANGED obs
    \/ \E t \in Callers : SummaryRun(t, 0) /\ UNCHANGED obs
    \/ \E t \in Callers : GetCheckpoint(t) /\ UNCHANGED obs
    \/ \E t \in Callers : UpdateCheckpoint(t) /\ UNCHANGED obs
    \/ \E t \in Callers : UpdateTotals(t) /\ UNCHANGED obs
    \/ \E t \in Callers : WriteMetadata(t) /\ UNCHANGED obs
    \/ \E t \in Callers : Return(t) /\ UNCHANGED obs

Spec == Init /\ [][Next]_vars

\* The store, the process and the observer's notes after construction
Constructed(notes) ==
    /\ db = [file_exchanges |-> EmptyTables.file_exchanges,
             received_files |-> EmptyTables.received_files,
             file_checkpoints |-> EmptyTables.file_checkpoints,
             daily_activity |-> EmptyTables.daily_activity,
             servers |-> NoRows, metadata |-> FALSE]
    /\ up = TRUE
    /\ pc = [t \in Callers |-> "idle"]
    /\ frame = [t \in Callers |-> ZeroFrame]
    /\ cycles = 0
    /\ obs = notes

\* The artifacts found at the start: the collector has reached the second
\* host only, and downloaded the ledger rows and the report lines given
\* (none: the file is not there).
Downloaded(rows, lines) ==
    /\ logs_dir = [h \in ServerNames |-> h = servers[2]]
    /\ history_file = [h \in ServerNames |-> IF h = servers[2] THEN rows ELSE <<>>]
    /\ history_exists = [h \in ServerNames |-> h = servers[2] /\ rows # <<>>]
    /\ summary_file = [h \in ServerNames |-> IF h = servers[2] THEN lines ELSE <<>>]
    /\ summary_exists = [h \in ServerNames |-> h = servers[2] /\ lines # <<>>]

NoNotes == [prev |-> <<>>, entry |-> <<>>, expect |-> <<>>]

\* The first cycle after a start that finds a ledger of one row, with any
\* of the size fields.
InitSizes ==
    \E size \in SizeFields :
        /\ Downloaded(<<SizedRow(servers[2], size)>>, <<>>)
        /\ Constructed(NoNotes)

NextSizes ==
    \/ cycles = 0 /\ Start("request", TRUE) /\ UNCHANGED obs
    \/ EnterServer("request") /\ UNCHANGED obs
    \/ HistoryBegin("request") /\ UNCHANGED obs
    \/ HistoryRun("request", 0) /\ UNCHANGED obs
    \/ SummaryBegin("request") /\ UNCHANGED obs
    \/ GetCheckpoint("request") /\ UNCHANGED obs
    \/ UpdateCheckpoint("request") /\ UNCHANGED obs
    \/ UpdateTotals("request") /\ UNCHANGED obs
    \/ WriteMetadata("request") /\ UNCHANGED obs
    \/ Return("request") /\ UNCHANGED obs

SpecSizes == InitSizes /\ [][NextSizes]_vars

\* The first cycle after a start that finds a report of up to MaxLines
\* entries of any kind, with or without a ledger.
InitEntries ==
    \E rows \in MixedLedgers(servers[2]) : \E es \in EntrySeqs(EntryKinds, MaxLines) :
        /\ Downloaded(rows, Report(es))
        /\ Constructed(NoNotes)

NextEntries ==
    \/ cycles = 0 /\ Start("request", TRUE) /\ UNCHANGED obs
    \/ EnterServer("request") /\ UNCHANGED obs
    \/ HistoryBegin("request") /\ UNCHANGED obs
    \/ HistoryRun("request", 0) /\ UNCHANGED obs
    \/ SummaryBegin("request") /\ UNCHANGED obs
    \/ SummaryRun("request", 0) /\ UNCHANGED obs
    \/ GetCheckpoint("request") /\ UNCHANGED obs
    \/ UpdateCheckpoint("request") /\ UNCHANGED obs
    \/ UpdateTotals("request") /\ UNCHANGED obs
    \/ WriteMetadata("request") /\ UNCHANGED obs
    \/ Return("request") /\ UNCHANGED obs

SpecEntries == InitEntries /\ [][NextEntries]_vars

\* The observer counts, for each entry of the report, the passes that went
\* past the checkpoint test with it and tried to parse it.
ObserveAttempts ==
    obs' = IF pc["request"] = "summary_run" /\ pc'["request"] = "checkpoint"
           THEN [obs EXCEPT !.attempts =
                    [k \in DOMAIN @ |->
                        IF k > frame["request"].last THEN @[k] + 1 ELSE @[k]]]
           ELSE obs

\* Cycles one after the other over a report of up to MaxLines entries found
\* at the start, which the collector may lose and fetch again between
\* cycles.
InitSkips ==
    \E es \in EntrySeqs(EntryLines, MaxLines) :
        /\ Downloaded(<<>>, Report(es))
        /\ Constructed([prev |-> <<>>, entry |-> <<>>, expect |-> <<>>,
                        attempts |-> [k \in 1..Len(es) |-> 0]])

NextSkips ==
    \/ Quiet /\ LoseSummary(servers[2]) /\ ObserveAttempts
    \/ Quiet /\ FetchSummary(servers[2]) /\ ObserveAttempts
    \/ Start("request", TRUE) /\ ObserveAttempts
    \/ EnterServer("request") /\ ObserveAttempts
    \/ HistoryBegin("request") /\ ObserveAttempts
    \/ SummaryBegin("request") /\ ObserveAttempts
    \/ SummaryRun("request", 0) /\ ObserveAttempts
    \/ GetCheckpoint("request") /\ ObserveAttempts
    \/ UpdateCheckpoint("request") /\ ObserveAttempts
    \/ UpdateTotals("request") /\ ObserveAttempts
    \/ WriteMetadata("request") /\ ObserveAttempts
    \/ Return("request") /\ ObserveAttempts

SpecSkips == InitSkips /\ [][NextSkips]_vars

\* "- report.txt (Size: 12 bytes, Date: 2025-05-14 23:59:59.5)"
LateEntry == ShapedEntry(PlainName, <<"1", "2">>, "23:59:59", "5", <<>>)

\* The entries a host adds to a report that grows
GrownEntries == {GoodEntry, LateEntry, BareEntry}

\* Cycles one after the other over the report of one host, to which the
\* host adds entries between cycles, up to MaxReport of them.
NextAppend ==
    \/ \E e \in GrownEntries :
          Quiet /\ GrowReport(servers[2], e, MaxReport) /\ UNCHANGED obs
    \/ Start("request", TRUE) /\ UNCHANGED obs
    \/ EnterServer("request") /\ UNCHANGED obs
    \/ HistoryBegin("request") /\ UNCHANGED obs
    \/ SummaryBegin("request") /\ UNCHANGED obs
    \/ SummaryRun("request", 0) /\ UNCHANGED obs
    \/ GetCheckpoint("request") /\ UNCHANGED obs
    \/ UpdateCheckpoint("request") /\ UNCHANGED obs
    \/ UpdateTotals("request") /\ UNCHANGED obs
    \/ WriteMetadata("request") /\ UNCHANGED obs
    \/ Return("request") /\ UNCHANGED obs

SpecAppend == Init /\ [][NextAppend]_vars

\* "Received Files Summary" and "Summary - Files Received: 2"
TitleLine == <<"Received", " ", "Files", " ", "Summary">>
CountedHeader == <<"Summary", " ", "-", " ", "Files Received:", " ", "2">>

\* The lines of the reports of any text
TextLines == {HeaderLine, CountedHeader, FooterLine, TitleLine, GoodEntry, LateEntry}

\* The first cycle after a start that finds a report of up to MaxText lines
\* in any order: entries before a header, after a footer, between the two.
InitText ==
    \E lines \in UNION {[1..m -> TextLines] : m \in 1..MaxText} :
        /\ Downloaded(<<>>, lines)
        /\ Constructed(NoNotes)

NextText ==
    \/ cycles = 0 /\ Start("request", TRUE) /\ UNCHANGED obs
    \/ EnterServer("request") /\ UNCHANGED obs
    \/ HistoryBegin("request") /\ UNCHANGED obs
    \/ SummaryBegin("request") /\ UNCHANGED obs
    \/ SummaryRun("request", 0) /\ UNCHANGED obs
    \/ GetCheckpoint("request") /\ UNCHANGED obs
    \/ UpdateCheckpoint("request") /\ UNCHANGED obs
    \/ UpdateTotals("request") /\ UNCHANGED obs
    \/ WriteMetadata("request") /\ UNCHANGED obs
    \/ Return("request") /\ UNCHANGED obs

SpecText == InitText /\ [][NextText]_vars

\* Cycles one after the other over artifacts that only grow, with the
\* process dying at any step and being started again.
NextDie ==
    \/ \E row \in LedgerRows(servers[2]) :
          Quiet /\ AppendRow(servers[2], row) /\ ObserveCrash
    \/ Quiet /\ AddEntry(servers[2], GoodEntry) /\ ObserveCrash
    \/ Start("request", TRUE) /\ ObserveCrash
    \/ EnterServer("request") /\ ObserveCrash
    \/ HistoryBegin("request") /\ ObserveCrash
    \/ HistoryRun("request", 0) /\ ObserveCrash
    \/ SummaryBegin("request") /\ ObserveCrash
    \/ SummaryRun("request", 0) /\ ObserveCrash
    \/ GetCheckpoint("request") /\ ObserveCrash
    \/ UpdateCheckpoint("request") /\ ObserveCrash
    \/ UpdateTotals("request") /\ ObserveCrash
    \/ WriteMetadata("request") /\ ObserveCrash
    \/ Return("request") /\ ObserveCrash
    \/ Crash /\ ObserveCrash
    \/ Restart /\ ObserveCrash

SpecDie == Init /\ [][NextDie]_vars

\* Cycles one after the other over the artifacts of one host, whose logs
\* directory may be gone at a later cycle.
NextGone ==
    \/ \E row \in LedgerRows(servers[2]) :
          Quiet /\ AppendRow(servers[2], row) /\ UNCHANGED obs
    \/ Quiet /\ AddEntry(servers[2], GoodEntry) /\ UNCHANGED obs
    \/ Quiet /\ RemoveLogs(servers[2]) /\ UNCHANGED obs
    \/ Start("request", TRUE) /\ UNCHANGED obs
    \/ EnterServer("request") /\ UNCHANGED obs
    \/ HistoryBegin("request") /\ UNCHANGED obs
    \/ HistoryRun("request", 0) /\ UNCHANGED obs
    \/ SummaryBegin("request") /\ UNCHANGED obs
    \/ SummaryRun("request", 0) /\ UNCHANGED obs
    \/ GetCheckpoint("request") /\ UNCHANGED obs
    \/ UpdateCheckpoint("request") /\ UNCHANGED obs
    \/ UpdateTotals("request") /\ UNCHANGED obs
    \/ WriteMetadata("request") /\ UNCHANGED obs
    \/ Return("request") /\ UNCHANGED obs

SpecGone == Init /\ [][NextGone]_vars

\* The observer keeps the tables a cycle left when it returned, until an
\* artifact changes, and notes whether the process was started since.
ObserveRestart ==
    obs' = IF files' # files
           THEN [obs EXCEPT !.prev = <<>>, !.restarted = FALSE]
           ELSE IF \E t \in Callers : pc[t] = "done" /\ pc'[t] = "idle"
           THEN [obs EXCEPT !.prev = <<Tables(db)>>, !.restarted = FALSE]
           ELSE IF ~up /\ up' /\ obs.prev # <<>>
           THEN [obs EXCEPT !.restarted = TRUE]
           ELSE obs

\* Cycles one after the other over the ledger and the report of one host,
\* the local copy of the ledger lost and fetched again between cycles, the
\* process stopped at any step and started again.
InitRestart ==
    /\ Downloaded(<<>>, <<>>)
    /\ Constructed([prev |-> <<>>, entry |-> <<>>, expect |-> <<>>,
                    restarted |-> FALSE])

NextRestart ==
    \/ \E row \in LedgerRows(servers[2]) :
          Quiet /\ AppendRow(servers[2], row) /\ ObserveRestart
    \/ Quiet /\ AddEntry(servers[2], GoodEntry) /\ ObserveRestart
    \/ Quiet /\ LoseHistory(servers[2]) /\ ObserveRestart
    \/ Quiet /\ FetchHistory(servers[2]) /\ ObserveRestart
    \/ Start("request", TRUE) /\ ObserveRestart
    \/ EnterServer("request") /\ ObserveRestart
    \/ HistoryBegin("request") /\ ObserveRestart
    \/ HistoryRun("request", 0) /\ ObserveRestart
    \/ SummaryBegin("request") /\ ObserveRestart
    \/ SummaryRun("request", 0) /\ ObserveRestart
    \/ GetCheckpoint("request") /\ ObserveRestart
    \/ UpdateCheckpoint("request") /\ ObserveRestart
    \/ UpdateTotals("request") /\ ObserveRestart
    \/ WriteMetadata("request") /\ ObserveRestart
    \/ Return("request") /\ ObserveRestart
    \/ Crash /\ ObserveRestart
    \/ Restart /\ ObserveRestart

SpecRestart == InitRestart /\ [][NextRestart]_vars

(***************************************************************************)
(* Properties.                                                             *)
(***************************************************************************)
Requester == "request"

\* The return value of incremental_update_all, held by a caller at "done"
Returned(t) == frame[t].total_updates

SameExchangeKey(a, b) ==
    /\ a.server_name = b.server_name /\ a.timestamp = b.timestamp
    /\ a.filename = b.filename /\ a.action = b.action

SameReceivedKey(a, b) ==
    /\ a.server_name = b.server_name /\ a.filename = b.filename
    /\ a.received_date = b.received_date

\* The records of the ledger rows of host s after row n
Appended(s, n) ==
    [i \in 1..(Len(history_file[s]) - n) |->
        ExchangeRecord(s, history_file[s][n + i])]

\* The caller t is about to parse a ledger of which the checkpoint covers
\* the first rows, and the rows after them repeat no key, among themselves
\* or against the store.
FreshRows(t) ==
    LET s == Server(t)
        new == Appended(s, frame[t].last)
    IN  /\ frame[t].last <= Len(history_file[s])
        /\ get_checkpoint(db, s).last_history_line = frame[t].last
        /\ \A i \in 1..Len(new) :
              /\ \A j \in 1..Len(new) : i # j => ~SameExchangeKey(new[i], new[j])
              /\ \A k \in 1..Len(db.file_exchanges) :
                    ~SameExchangeKey(db.file_exchanges[k], new[i])

\* C2: with the checkpoint of a host at N after a ledger of N rows, and M
\* rows appended that repeat no key among themselves or against the store,
\* the history pass of the next cycle inserts exactly the M new records and
\* reports new_exchanges = M and N + M lines read, and the checkpoint write
\* of that cycle sets last_history_line to the lines read.
C2_AppendedRowsIngested ==
    [][ /\ (pc[Requester] = "history_run" /\ pc'[Requester] = "summary"
            /\ FreshRows(Requester)) =>
              /\ db'.file_exchanges =
                    db.file_exchanges \o Appended(Server(Requester), frame[Requester].last)
              /\ frame'[Requester].new_exchanges =
                    Len(history_file[Server(Requester)]) - frame[Requester].last
              /\ frame'[Requester].history_lines = Len(history_file[Server(Requester)])
        /\ (pc[Requester] = "update_checkpoint" /\ pc'[Requester] = "totals") =>
              get_checkpoint(db', Server(Requester)).last_history_line
                  = frame[Requester].history_lines
      ]_vars

\* The pass has read a ledger of two rows from a checkpoint at 1 and
\* inserted the second row.
C2_Witness ==
    /\ pc[Requester] = "summary"
    /\ frame[Requester].new_exchanges = 1
    /\ frame[Requester].history_lines = 2
    /\ Len(db.file_exchanges) = 2
    /\ ~SameExchangeKey(db.file_exchanges[1], db.file_exchanges[2])

\* C3: no two rows of file_exchanges share (server_name, timestamp,
\* filename, action) and no two rows of received_files share (server_name,
\* filename, received_date), rows with missing fields included.
C3_KeysUnique ==
    /\ \A i, j \in 1..Len(db.file_exchanges) :
          i < j => ~SameExchangeKey(db.file_exchanges[i], db.file_exchanges[j])
    /\ \A i, j \in 1..Len(db.received_files) :
          i < j => ~SameReceivedKey(db.received_files[i], db.received_files[j])

\* C4: for every host, last_history_line and last_received_count never
\* decrease, whether or not the artifact files are present at a cycle.
C4_CheckpointNeverDecreases ==
    [][ \A h \in ServerNames :
          /\ get_checkpoint(db', h).last_history_line
                >= get_checkpoint(db, h).last_history_line
          /\ get_checkpoint(db', h).last_received_count
                >= get_checkpoint(db, h).last_received_count ]_vars

\* The daily_activity row of (date, host); a missing row counts nothing
Daily(date, h) ==
    IF HasKey(db.daily_activity, <<date, h>>)
    THEN db.daily_activity[<<date, h>>] ELSE ZeroActivity

\* The dates that occur in the aggregates or in the records
Dates ==
    {k[1] : k \in DOMAIN db.daily_activity}
    \cup {Split(db.file_exchanges[i].timestamp, <<" ">>)[1] :
              i \in {j \in 1..Len(db.file_exchanges) :
                        Truthy(db.file_exchanges[j].timestamp)}}
    \cup {Split(db.received_files[i].received_date, <<" ">>)[1] :
              i \in {j \in 1..Len(db.received_files) :
                        Truthy(db.received_files[j].received_date)}}

SentOn(date, h) ==
    {i \in 1..Len(db.file_exchanges) :
        /\ db.file_exchanges[i].server_name = h
        /\ db.file_exchanges[i].action = SENT
        /\ Truthy(db.file_exchanges[i].timestamp)
        /\ Split(db.file_exchanges[i].timestamp, <<" ">>)[1] = date}

ReceivedOn(date, h) ==
    {i \in 1..Len(db.received_files) :
        /\ db.received_files[i].server_name = h
        /\ Truthy(db.received_files[i].received_date)
        /\ Split(db.received_files[i].received_date, <<" ">>)[1] = date}

\* C5: between complete cycles that do not overlap, for every date and
\* host, files_sent is the number of 'sent' rows of file_exchanges of that
\* host on that date and files_received the number of rows of
\* received_files of that host received on that date.
C5_DailyEqualsRecords ==
    Quiet => \A h \in ServerNames : \A date \in Dates :
                /\ Daily(date, h).files_sent = Cardinality(SentOn(date, h))
                /\ Daily(date, h).files_received = Cardinality(ReceivedOn(date, h))

\* What the aggregates of host h count, over all dates
CountedSent(h) ==
    LET keys == {k \in DOMAIN db.daily_activity : k[2] = h}
    IN  Total([k \in keys |-> db.daily_activity[k].files_sent], keys)

CountedReceived(h) ==
    LET keys == {k \in DOMAIN db.daily_activity : k[2] = h}
    IN  Total([k \in keys |-> db.daily_activity[k].files_received], keys)

\* C6: over cycles on append-only artifacts, the aggregates of a host count
\* no more than the rows of its ledger and the entries of its report, and
\* the new_exchanges and new_received reported over all its cycles (the
\* running totals of its checkpoint) are no more than those rows and
\* entries, also when a file was absent at one cycle and back at a later.
C6_CountedAtMostOnce ==
    \A h \in ServerNames :
        /\ CountedSent(h) <= Len(history_file[h])
        /\ CountedReceived(h) <= EntriesOf(summary_file[h])
        /\ get_checkpoint(db, h).total_processed_exchanges <= Len(history_file[h])
        /\ get_checkpoint(db, h).total_processed_received
              <= EntriesOf(summary_file[h])

\* The caller has parsed the ledger of its host in this cycle.
PastHistory == {"summary", "summary_run", "checkpoint", "update_checkpoint", "totals"}

\* C7: two cycles that overlap on a host never both start from the same
\* checkpoint and both process the same ledger rows up to the same line.
C7_MutualExclusion ==
    \A t, u \in Callers :
        (/\ t # u
         /\ pc[t] \in PastHistory /\ pc[u] \in PastHistory
         /\ frame[t].i = frame[u].i)
        => ~(/\ frame[t].new_exchanges >= 1
             /\ frame[u].new_exchanges >= 1
             /\ frame[t].history_lines = frame[u].history_lines
             /\ frame[t].new_exchanges = frame[u].new_exchanges)

\* C8: after the process died inside the cycle of a host and a complete
\* cycle has then been run for that host over the same artifacts, the
\* record tables, the daily aggregates and the checkpoints are those that
\* one uninterrupted cycle would have left.
C8_CrashThenCycleEqualsOneCycle ==
    (/\ up /\ obs.expect # <<>>
     /\ Left(Requester, obs.expect[1].server))
    => Tables(db) = Tables(obs.expect[1].db)

\* C9: what completed cycles wrote to file_checkpoints, file_exchanges,
\* received_files and daily_activity is unchanged by a restart
\* (IncrementalUpdater construction and init_db).
C9_TablesSurviveRestart ==
    [][ (~up /\ up' /\ db.metadata) => Tables(db') = Tables(db) ]_vars

\* Where the loop over the hosts stands inside a cycle
InLoop == InServer \cup {"server"}

\* C10: whatever fails while a host is processed, the loop of
\* incremental_update_all goes on with the same host or moves to the next
\* host of the list, and the cycle leaves the loop only after the last host.
C10_FailureDoesNotStopLoop ==
    [][ \A t \in Callers : pc[t] \in InLoop =>
          \/ /\ pc'[t] \in InLoop
             /\ frame'[t].i = frame[t].i
          \/ /\ pc'[t] = "server"
             /\ frame'[t].i = frame[t].i + 1
          \/ /\ pc'[t] = "metadata"
             /\ frame[t].i = Len(servers) ]_vars

\* The first host has a ledger and no checkpoint (each cycle failed on it),
\* and the second host has been processed to its checkpoint write.
C10_Witness ==
    /\ pc[Requester] = "totals" /\ frame[Requester].i = 2
    /\ history_exists[servers[1]]
    /\ ~HasKey(db.file_checkpoints, servers[1])
    /\ HasKey(db.file_checkpoints, servers[2])

\* The value incremental_update_server returns at its last statement
HostResult(t) ==
    [new_exchanges |-> frame[t].new_exchanges,
     new_received |-> frame[t].new_received,
     total_exchanges |-> frame[t].total_exchanges,
     total_received |-> frame[t].total_received]

\* C11: no exception escapes the pipeline of a host: whatever fails inside
\* it (a checkpoint read, a parse pass, the checkpoint write, the totals
\* update), the loop leaves the host only by the return statement of
\* incremental_update_server, with a result of four counts that is added
\* to the sums of the cycle.
C11_NoExceptionEscapesHost ==
    [][ \A t \in Callers :
          (pc[t] \in InServer /\ pc'[t] \notin InServer) =>
              /\ pc[t] = "totals"
              /\ db' = update_server_totals(db, Server(t))
              /\ frame'[t].total_updates
                    = Accumulate(frame[t].total_updates, HostResult(t)) ]_vars

\* C12: when the ledger of a host (its report) does not exist, the history
\* pass (the summary pass) returns (0, 0), leaves every table as it was,
\* raises nothing, and the cycle of the host goes on with its next step.
C12_MissingFileIsNoError ==
    [][ \A t \in Callers :
          /\ (pc[t] = "history" /\ ~history_exists[Server(t)]) =>
                /\ pc'[t] = "summary"
                /\ frame'[t].i = frame[t].i
                /\ frame'[t].new_exchanges = 0
                /\ frame'[t].history_lines = 0
                /\ db' = db
          /\ (pc[t] = "summary" /\ ~summary_exists[Server(t)]) =>
                /\ pc'[t] = "checkpoint"
                /\ frame'[t].i = frame[t].i
                /\ frame'[t].new_received = 0
                /\ frame'[t].received_count = 0
                /\ db' = db ]_vars

\* Both passes of a host have returned for files that are absent from a
\* logs directory that exists, the ledger after it had been ingested.
C12_Witness ==
    /\ pc[Requester] = "checkpoint"
    /\ logs_dir[Server(Requester)]
    /\ ~history_exists[Server(Requester)]
    /\ ~summary_exists[Server(Requester)]
    /\ Len(db.file_exchanges) >= 1
    /\ frame[Requester].history_lines = 0
    /\ frame[Requester].received_count = 0

\* The line is an entry of that shape, with a file name, a size and a date.
WellShaped(line) ==
    /\ IsEntry(line)
    /\ Find(line, SizeMark) > 3
    /\ Find(line, DateMark) > Find(line, SizeMark) + Len(SizeMark)
    /\ Len(line) > Find(line, DateMark) + Len(DateMark)
    /\ line[Len(line)] = ")"

\* The file name of an entry of that shape: the text before " (Size: "
ShapeName(line) == SubSeq(line, 3, Find(line, SizeMark) - 1)

\* The entry lines of a report, in the order of the file
EntryList(lines) == SelectSeq(lines, IsEntry)

\* C13: an entry line of the files section that does not have the shape
\* "<filename> (Size: <N> bytes, Date: <date>)" is skipped: every row of
\* received_files of a host is the record of a line of that shape in the
\* report of the host, and files_received of the host counts only when the
\* report has a line of that shape.
C13_MalformedEntrySkipped ==
    \A h \in ServerNames :
        /\ \A i \in 1..Len(db.received_files) :
              db.received_files[i].server_name = h =>
                  \E k \in 1..Len(summary_file[h]) :
                      /\ WellShaped(summary_file[h][k])
                      /\ ShapeName(summary_file[h][k]) = db.received_files[i].filename
        /\ CountedReceived(h) > 0 =>
              \E k \in 1..Len(summary_file[h]) : WellShaped(summary_file[h][k])

\* The source host a file name of the shape from_<host-prefix>-<N>_<rest>
\* names, 'unknown' for any other file name
ShapeSource(filename) ==
    IF /\ Len(filename) >= 6
       /\ SubSeq(filename, 1, 2) = <<"from", "_">>
       /\ filename[3] = "ubuntu-server-"
       /\ IsDigit(filename[4])
       /\ filename[5] = "_"
    THEN <<filename[3], filename[4]>>
    ELSE <<"unknown">>

\* C15: the source_server stored for a report entry whose file name has the
\* shape from_<host-prefix>-<N>_<rest> is '<host-prefix>-<N>'
\* ('from_ubuntu-server-2_20250514_010156.txt' gives 'ubuntu-server-2'),
\* and 'unknown' for every other file name.
C15_SourceHostFromFileName ==
    \A i \in 1..Len(db.received_files) :
        db.received_files[i].source_server
            = ShapeSource(db.received_files[i].filename)

\* The sizes the specification gives as examples
SizeExamples ==
    {[size |-> <<"1", ".", "5", " ", "K", "B">>, value |-> 1536],
     [size |-> <<"2", " ", "M", "B">>, value |-> 2097152],
     [size |-> <<"9", "3", "1", " ">> \o BYTES, value |-> 931],
     [size |-> GARBAGE, value |-> 0]}

\* The checkpoint of host h covers row k of its ledger.
Covered(h, k) == get_checkpoint(db, h).last_history_line >= k

\* file_exchanges holds the record of the ledger row with the size n.
Recorded(h, row, n) ==
    \E i \in 1..Len(db.file_exchanges) :
        /\ db.file_exchanges[i].server_name = h
        /\ db.file_exchanges[i].timestamp = row.timestamp
        /\ db.file_exchanges[i].filename = row.file
        /\ db.file_exchanges[i].file_size = n

\* C17: parse_file_size maps '1.5 KB' to 1536, '2 MB' to 2097152,
\* '931 bytes' to 931 and 'garbage' to 0, and in any case and with any
\* blanks around it '<x> kb|mb|gb' to the integer part of x * 1024^k and
\* '<n> bytes' or a bare number to n: the record of every ingested ledger
\* row has that number as its file_size.
C17_SizeBytes ==
    \A h \in ServerNames : \A k \in 1..Len(history_file[h]) :
        Covered(h, k) =>
            \A c \in SizeExamples \cup SizeCases :
                c.size = history_file[h][k].size =>
                    Recorded(h, history_file[h][k], c.value)

\* A row with the size ' 1.5 Kb ' has been ingested as 1536 bytes.
C17_Witness ==
    /\ Covered(servers[2], 1)
    /\ history_file[servers[2]][1].size = <<" ", "1", ".", "5", " ", "K", "b", " ">>
    /\ Len(db.file_exchanges) = 1
    /\ db.file_exchanges[1].file_size = 1536

\* C18: parse_file_size returns an integer for every size field and never
\* raises, 0 for a field that is missing, empty or does not read as a size:
\* the history pass reads the ledger to its end, ingests every row after
\* the checkpoint with an integer file_size, 0 for such a field, and
\* reports all of them.
C18_SizeNeverRaises ==
    [][ \A t \in Callers :
          (pc[t] = "history_run" /\ pc'[t] = "summary") =>
              /\ frame'[t].history_lines = Len(history_file[Server(t)])
              /\ frame'[t].new_exchanges
                    = Len(history_file[Server(t)]) - frame[t].last
              /\ \A k \in (frame[t].last + 1)..Len(history_file[Server(t)]) :
                    \E i \in 1..Len(db'.file_exchanges) :
                        /\ db'.file_exchanges[i].server_name = Server(t)
                        /\ db'.file_exchanges[i].timestamp
                              = history_file[Server(t)][k].timestamp
                        /\ db'.file_exchanges[i].file_size \in Int
                        /\ history_file[Server(t)][k].size \in UnparsedSizes
                              => db'.file_exchanges[i].file_size = 0 ]_vars

\* The row with the size 'garbage' has been ingested with 0 bytes and the
\* cycle has gone on to the checkpoint write.
C18_Witness ==
    /\ pc[Requester] = "totals"
    /\ history_file[servers[2]][1].size = GARBAGE
    /\ Len(db.file_exchanges) = 1
    /\ db.file_exchanges[1].file_size = 0
    /\ Covered(servers[2], 1)

\* The line is an entry that does not have the shape.
Malformed(line) == IsEntry(line) /\ ~WellShaped(line)

\* received_files of the store d holds a record of host h with the file
\* name of the entry.
Ingested(d, h, line) ==
    \E i \in 1..Len(d.received_files) :
        /\ d.received_files[i].server_name = h
        /\ d.received_files[i].filename = ShapeName(line)

\* The summary pass counts every entry of the report, malformed ones
\* included, and ingests the entries of the shape after the checkpoint,
\* whatever stands before them.
CountsPastMalformed(t) ==
    (pc[t] = "summary_run" /\ pc'[t] = "checkpoint") =>
        /\ frame'[t].received_count = Len(EntryList(summary_file[Server(t)]))
        /\ \A k \in (frame[t].last + 1)..Len(EntryList(summary_file[Server(t)])) :
              WellShaped(EntryList(summary_file[Server(t)])[k])
                  => Ingested(db', Server(t), EntryList(summary_file[Server(t)])[k])

\* The checkpoint write stores the count the pass returned.
CheckpointTakesCount(t) ==
    (pc[t] = "update_checkpoint" /\ pc'[t] = "totals") =>
        get_checkpoint(db', Server(t)).last_received_count = frame[t].received_count

\* No malformed entry has been tried by more than one pass.
MalformedTriedOnce ==
    \A k \in DOMAIN obs.attempts :
        Malformed(EntryList(summary_file[servers[2]])[k]) => obs.attempts[k] <= 1

\* C14: a malformed entry still advances the position counter: the entries
\* after it in the report are ingested in the same pass, the count the pass
\* returns and the checkpoint written from it include it, and no pass of a
\* later cycle tries it again.
C14_MalformedAdvancesCounter ==
    [][ /\ \A t \in Callers : CountsPastMalformed(t) /\ CheckpointTakesCount(t)
        /\ MalformedTriedOnce' ]_vars

\* The first two parts of C14 alone.
C14_SamePass ==
    [][ \A t \in Callers : CountsPastMalformed(t) /\ CheckpointTakesCount(t) ]_vars

\* total_size_received of host h on the day of the reports, in the store d
ReceivedSize(d, h) ==
    IF HasKey(d.daily_activity, <<<<"2025-05-14">>, h>>)
    THEN d.daily_activity[<<<<"2025-05-14">>, h>>].total_size_received
    ELSE 0

\* The count of bytes an entry states: N for an entry of the full shape
\* with a number N, 0 for any other
Stated(line) ==
    IF \E c \in ShapedCases : c.line = line
    THEN (CHOOSE c \in ShapedCases : c.line = line).bytes
    ELSE 0

RECURSIVE StatedSum(_, _)
\* The bytes stated by the entries es after the first n
StatedSum(es, n) ==
    IF n >= Len(es) THEN 0 ELSE Stated(es[Len(es)]) + StatedSum(SubSeq(es, 1, Len(es) - 1), n)

\* No two entries of es after the first n state the same file at the same
\* date.
OneEntryPerFile(es, n) ==
    \A i, j \in (n + 1)..Len(es) : \A c, e \in ShapedCases :
        (i < j /\ c.line = es[i] /\ e.line = es[j])
            => ~(c.filename = e.filename /\ c.date = e.date)

\* received_files of the store d holds the record the shaped entry c states.
Stored(d, h, c) ==
    \E i \in 1..Len(d.received_files) :
        /\ d.received_files[i].server_name = h
        /\ d.received_files[i].filename = c.filename
        /\ d.received_files[i].file_size = c.size
        /\ d.received_files[i].received_date = c.date

\* C16: for a report entry "<filename> (Size: <N> bytes, Date: <date>
\* <time>.<fraction><zone text>)" the stored record has the text before
\* " (Size: " as its filename, "<N> bytes" as its raw size and "<date>
\* <time>" as its received date, fraction and zone text removed, and N is
\* what the entry adds to the received size of the day.
C16_EntryFields ==
    [][ \A t \in Callers :
          (pc[t] = "summary_run" /\ pc'[t] = "checkpoint") =>
              /\ \A k \in (frame[t].last + 1)..Len(EntryList(summary_file[Server(t)])) :
                    \A c \in ShapedCases :
                        c.line = EntryList(summary_file[Server(t)])[k]
                            => Stored(db', Server(t), c)
              /\ OneEntryPerFile(EntryList(summary_file[Server(t)]), frame[t].last) =>
                    ReceivedSize(db', Server(t))
                        = ReceivedSize(db, Server(t))
                          + StatedSum(EntryList(summary_file[Server(t)]), frame[t].last)
      ]_vars

\* A report of two entries has been read: 'report.txt' of 12 bytes with no
\* zone text and the file from ubuntu-server-2 of 931 bytes.
C16_Witness ==
    /\ pc[Requester] = "checkpoint"
    /\ frame[Requester].received_count = 2
    /\ Stored(db, servers[2],
              [filename |-> PlainName, size |-> <<"1", "2", " ">> \o BYTES,
               date |-> <<"2025-05-14", " ", "23:59:59">>])
    /\ Stored(db, servers[2],
              [filename |-> FromName, size |-> <<"9", "3", "1", " ">> \o BYTES,
               date |-> <<"2025-05-14", " ", "01:01:57">>])
    /\ \E k \in 1..Len(summary_file[servers[2]]) :
          summary_file[servers[2]][k]
              = ShapedEntry(PlainName, <<"1", "2">>, "23:59:59", "5", <<>>)
    /\ ReceivedSize(db, servers[2]) = 943

\* The records of host h in the tables of the store d
ExchangesOf(d, h) ==
    {i \in 1..Len(d.file_exchanges) : d.file_exchanges[i].server_name = h}

ReceivedOf(d, h) ==
    {i \in 1..Len(d.received_files) : d.received_files[i].server_name = h}

\* t is the latest timestamp of the exchange records of host h: none when
\* the host has no record, else a timestamp of a record that none exceeds.
LatestOf(d, h, t) ==
    IF ExchangesOf(d, h) = {} THEN t = None
    ELSE /\ \E i \in ExchangesOf(d, h) : d.file_exchanges[i].timestamp = t
         /\ \A i \in ExchangesOf(d, h) : ~StrLess(t, d.file_exchanges[i].timestamp)

\* C19: after update_server_totals the row of the host in servers has sent
\* = the number of its exchange records with action 'sent', received = the
\* number of its received-file records and last_update = the latest
\* timestamp of its exchange records (none without a record), whatever the
\* running totals of its checkpoint are.
C19_TotalsFromRecords ==
    [][ \A t \in Callers :
          (pc[t] = "totals" /\ pc'[t] # "totals") =>
              /\ HasKey(db'.servers, Server(t))
              /\ db'.servers[Server(t)].sent
                    = Cardinality({i \in ExchangesOf(db', Server(t)) :
                                      db'.file_exchanges[i].action = SENT})
              /\ db'.servers[Server(t)].received
                    = Cardinality(ReceivedOf(db', Server(t)))
              /\ LatestOf(db', Server(t), db'.servers[Server(t)].last_update) ]_vars

\* The totals of a host were written from three exchange records, two of
\* them 'sent' and the latest not the last, and from one received-file
\* record of a report of two entries, while the checkpoint counts three
\* exchanges and two received files.
C19_Witness ==
    /\ HasKey(db.servers, servers[2])
    /\ pc[Requester] = "server"
    /\ db.servers[servers[2]].sent = 2
    /\ db.servers[servers[2]].received = 1
    /\ db.servers[servers[2]].last_update = CutRow(servers[2]).timestamp
    /\ get_checkpoint(db, servers[2]).total_processed_exchanges = 3
    /\ get_checkpoint(db, servers[2]).total_processed_received = 1

\* C20: incremental_update_all returns new_exchanges and new_received equal
\* to the sums, over the hosts, of the numbers of exchange records and
\* received-file records ingested for the host in this cycle: the sums
\* start at 0, each pass reports the number of rows it added to its table,
\* and the loop adds what the passes of a host reported when it leaves the
\* host.
C20_ReturnsIngestedCounts ==
    [][ \A t \in Callers :
          /\ (pc[t] = "idle" /\ pc'[t] = "server") =>
                /\ frame'[t].total_updates.new_exchanges = 0
                /\ frame'[t].total_updates.new_received = 0
          /\ (pc[t] \in {"history", "history_run"} /\ pc'[t] = "summary") =>
                frame'[t].new_exchanges
                    = Len(db'.file_exchanges) - Len(db.file_exchanges)
          /\ (pc[t] \in {"summary", "summary_run"} /\ pc'[t] = "checkpoint") =>
                frame'[t].new_received
                    = Len(db'.received_files) - Len(db.received_files)
          /\ (pc[t] \in InLoop /\ pc'[t] \in {"server", "metadata"}) =>
                /\ frame'[t].total_updates.new_exchanges
                      = frame[t].total_updates.new_exchanges + frame[t].new_exchanges
                /\ frame'[t].total_updates.new_received
                      = frame[t].total_updates.new_received + frame[t].new_received
      ]_vars

\* What the aggregates of host h count in the store d, over all dates
SentIn(d, h) ==
    LET keys == {k \in DOMAIN d.daily_activity : k[2] = h}
    IN  Total([k \in keys |-> d.daily_activity[k].files_sent], keys)

ReceivedIn(d, h) ==
    LET keys == {k \in DOMAIN d.daily_activity : k[2] = h}
    IN  Total([k \in keys |-> d.daily_activity[k].files_received], keys)

\* C21: the daily aggregator is called at most once per physical record: a
\* ledger row or report entry whose insert the uniqueness constraint
\* rejects (it is in the store already, or repeats an earlier row of the
\* same pass) leaves the store as it was and bumps no aggregate, so a pass
\* raises files_sent (files_received) of its host by no more than the
\* number of records it added.
C21_RejectedInsertBumpsNothing ==
    [][ \A t \in Callers :
          /\ (pc[t] = "history_run" /\ pc'[t] = "summary") =>
                SentIn(db', Server(t)) - SentIn(db, Server(t))
                    <= Len(db'.file_exchanges) - Len(db.file_exchanges)
          /\ (pc[t] = "summary_run" /\ pc'[t] = "checkpoint") =>
                ReceivedIn(db', Server(t)) - ReceivedIn(db, Server(t))
                    <= Len(db'.received_files) - Len(db.received_files) ]_vars

\* C22: after every complete cycle and for every host, the running totals
\* of the checkpoint equal the numbers of records of the host in the
\* store: total_processed_exchanges its rows of file_exchanges and
\* total_processed_received its rows of received_files.
C22_TotalsMatchTables ==
    (Quiet /\ db.metadata) =>
        \A h \in ServerNames :
            /\ get_checkpoint(db, h).total_processed_exchanges
                  = Cardinality(ExchangesOf(db, h))
            /\ get_checkpoint(db, h).total_processed_received
                  = Cardinality(ReceivedOf(db, h))

\* The aggregate of (date, h) in the store d
DailyIn(d, date, h) ==
    IF HasKey(d.daily_activity, <<date, h>>)
    THEN d.daily_activity[<<date, h>>] ELSE ZeroActivity

\* The 'sent' records of (date, h) that the store e holds after those of d
NewlySent(d, e, date, h) ==
    {i \in (Len(d.file_exchanges) + 1)..Len(e.file_exchanges) :
        /\ e.file_exchanges[i].server_name = h
        /\ e.file_exchanges[i].action = SENT
        /\ Truthy(e.file_exchanges[i].timestamp)
        /\ Split(e.file_exchanges[i].timestamp, <<" ">>)[1] = date}

C24_CheckpointGetAfterPut ==
    [][ /\ \A h \in ServerNames :
              ~HasKey(db.file_checkpoints, h) =>
                  get_checkpoint(db, h)
                      = [last_history_line |-> 0, last_received_count |-> 0,
                         total_processed_exchanges |-> 0,
                         total_processed_received |-> 0]
        /\ \A t \in Callers :
              (pc[t] = "update_checkpoint" /\ pc'[t] = "totals") =>
                  /\ get_checkpoint(db', Server(t))
                        = [last_history_line |-> frame[t].history_lines,
                           last_received_count |-> frame[t].received_count,
                           total_processed_exchanges |-> frame[t].total_exchanges,
                           total_processed_received |-> frame[t].total_received]
                  /\ \A h \in ServerNames \ {Server(t)} :
                        /\ HasKey(db'.file_checkpoints, h)
                              = HasKey(db.file_checkpoints, h)
                        /\ get_checkpoint(db', h) = get_checkpoint(db, h) ]_vars

\* The checkpoint of the second host written over an older one of its own,
\* next to the checkpoint of the first host
C24_Witness ==
    /\ pc[Requester] = "totals"
    /\ Server(Requester) = servers[2]
    /\ cycles = 2
    /\ HasKey(db.file_checkpoints, servers[1])
    /\ get_checkpoint(db, servers[1]).last_history_line >= 1
    /\ get_checkpoint(db, servers[2]).last_received_count = 1
    /\ get_checkpoint(db, servers[2]).total_processed_received = 1
    /\ ~HasKey(db.file_checkpoints, servers[3])

\* file_exchanges of the store d holds the record of host h for the row.
Committed(d, h, row) ==
    \E i \in 1..Len(d.file_exchanges) :
        /\ d.file_exchanges[i].server_name = h
        /\ d.file_exchanges[i].timestamp = row.timestamp
        /\ d.file_exchanges[i].filename = row.file
        /\ d.file_exchanges[i].action = row.action

\* C25: after any cycle the checkpoint and the records it gates have
\* advanced together: every complete ledger row at or before
\* last_history_line has its record in file_exchanges and every entry of
\* the shape at or before last_received_count has its record in
\* received_files, also when a pass failed part-way and rolled back.
C25_CheckpointGatesCommitted ==
    Quiet =>
        \A h \in ServerNames :
            /\ \A k \in 1..Len(history_file[h]) :
                  (/\ k <= get_checkpoint(db, h).last_history_line
                   /\ history_file[h][k].file # None)
                  => Committed(db, h, history_file[h][k])
            /\ \A k \in 1..Len(EntryList(summary_file[h])) :
                  (/\ k <= get_checkpoint(db, h).last_received_count
                   /\ WellShaped(EntryList(summary_file[h])[k]))
                  => Ingested(db, h, EntryList(summary_file[h])[k])

\* C26: the count of new records a parse pass returns is the number of
\* records the pass added to the store: a row ignored as a duplicate, or
\* one whose insert was rolled back when the pass failed, is not counted
\* in new_exchanges or new_received.
C26_PassCountsAddedRecords ==
    [][ \A t \in Callers :
          /\ (pc[t] = "history_run" /\ pc'[t] = "summary") =>
                frame'[t].new_exchanges
                    = Cardinality(ExchangesOf(db', Server(t)))
                      - Cardinality(ExchangesOf(db, Server(t)))
          /\ (pc[t] = "summary_run" /\ pc'[t] = "checkpoint") =>
                frame'[t].new_received
                    = Cardinality(ReceivedOf(db', Server(t)))
                      - Cardinality(ReceivedOf(db, Server(t))) ]_vars

\* The steps that may follow a step of incremental_update_server
StepsAfter(label) ==
    CASE label = "history" -> {"history_run", "summary"}
      [] label = "history_run" -> {"summary"}
      [] label = "summary" -> {"summary_run", "checkpoint"}
      [] label = "summary_run" -> {"checkpoint"}
      [] label = "checkpoint" -> {"update_checkpoint"}
      [] label = "update_checkpoint" -> {"totals"}
      [] label = "totals" -> {"server", "metadata"}

BeforeWrite == {"history", "history_run", "summary", "summary_run",
                "checkpoint", "update_checkpoint"}

\* C27: within the cycle of one host the steps come in the order ledger
\* pass (which reads the checkpoint), summary pass, checkpoint read, one
\* checkpoint write that carries both offsets and both totals, host totals
\* update; a running process changes the checkpoints in that write only,
\* so until the write the checkpoints are those found at the entry to the
\* host, and a crash before the write leaves them so.
C27_CheckpointWrittenAfterPasses ==
    [][ /\ \A t \in Callers :
              /\ (up' /\ pc[t] \in InServer /\ pc'[t] # pc[t]) =>
                    pc'[t] \in StepsAfter(pc[t])
              /\ (pc[t] \in BeforeWrite /\ obs.entry # <<>>) =>
                    db.file_checkpoints = obs.entry[1].file_checkpoints
              /\ (pc[t] = "update_checkpoint" /\ pc'[t] = "totals") =>
                    db'.file_checkpoints[Server(t)]
                        = [last_history_line |-> frame[t].history_lines,
                           last_received_count |-> frame[t].received_count,
                           total_processed_exchanges |-> frame[t].total_exchanges,
                           total_processed_received |-> frame[t].total_received]
        /\ (up /\ up' /\ db'.file_checkpoints # db.file_checkpoints) =>
              \E t \in Callers :
                  pc[t] = "update_checkpoint" /\ pc'[t] = "totals"
        /\ (up /\ ~up') => db' = db ]_vars

\* The process died after both passes of a second cycle had committed and
\* before the checkpoint write: two records, the checkpoint still at 1
C27_Witness ==
    /\ ~up
    /\ obs.expect # <<>>
    /\ Len(db.file_exchanges) = 2
    /\ Len(db.received_files) = 1
    /\ get_checkpoint(db, servers[2]).last_history_line = 1
    /\ get_checkpoint(db, servers[2]).last_received_count = 0

\* The number of rows of a file of n rows after the first k
RowsAfter(n, k) == IF n > k THEN n - k ELSE 0

FreshEntries(t) ==
    LET s == Server(t)
        es == EntryList(summary_file[s])
        K == get_checkpoint(db, s).last_received_count
    IN  /\ K <= Len(es)
        /\ \A i \in (K + 1)..Len(es) :
              /\ WellShaped(es[i])
              /\ ~Ingested(db, s, es[i])
              /\ \A j \in (K + 1)..Len(es) :
                    i # j => ShapeName(es[i]) # ShapeName(es[j])

\* C29: with K entries of a report consumed (last_received_count = K) and
\* J well-formed, distinct entries added after them inside the files
\* section, the summary pass of the next cycle appends the records of
\* exactly those J entries, in their order, inserts and aggregates nothing
\* for the first K, returns new_received = J and K + J entries read, and
\* the checkpoint write of that cycle sets last_received_count to K + J.
C29_AppendedEntriesIngested ==
    [][ \A t \in Callers :
          /\ (pc[t] = "summary_run" /\ pc'[t] = "checkpoint" /\ FreshEntries(t)) =>
                LET s == Server(t)
                    es == EntryList(summary_file[s])
                    K == get_checkpoint(db, s).last_received_count
                    J == Len(es) - K
                    old == Len(db.received_files)
                IN  /\ Len(db'.received_files) = old + J
                    /\ SubSeq(db'.received_files, 1, old) = db.received_files
                    /\ \A j \in 1..J :
                          /\ db'.received_files[old + j].server_name = s
                          /\ db'.received_files[old + j].filename = ShapeName(es[K + j])
                    /\ ReceivedIn(db', s) = ReceivedIn(db, s) + J
                    /\ frame'[t].new_received = J
                    /\ frame'[t].received_count = K + J
          /\ (pc[t] = "update_checkpoint" /\ pc'[t] = "totals") =>
                get_checkpoint(db', Server(t)).last_received_count
                    = frame[t].received_count ]_vars

\* One entry consumed by an earlier cycle and two added since: the pass has
\* ingested the two and the checkpoint is still at 1
C29_Witness ==
    /\ pc[Requester] = "checkpoint"
    /\ get_checkpoint(db, servers[2]).last_received_count = 1
    /\ frame[Requester].new_received = 2
    /\ frame[Requester].received_count = 3
    /\ Len(db.received_files) = 3
    /\ db.received_files[2].filename = FromName
    /\ db.received_files[3].filename = PlainName

RECURSIVE InsideAfter(_, _)
\* The reader is inside the files section after the first n lines: the last
\* line among them that contains "Files Received:" or starts with
\* "Total Files:" is one that contains "Files Received:".
InsideAfter(lines, n) ==
    IF n = 0 THEN FALSE
    ELSE IF Contains(lines[n], <<"Files Received:">>) THEN TRUE
    ELSE IF StartsWith(lines[n], <<"Total Files:">>) THEN FALSE
    ELSE InsideAfter(lines, n - 1)

\* The "- " lines of a report that are read inside the files section
InsideEntries(lines) ==
    {k \in 1..Len(lines) :
        /\ IsEntry(lines[k])
        /\ ~Contains(lines[k], <<"Files Received:">>)
        /\ InsideAfter(lines, k - 1)}

\* C30: the summary pass classifies lines with two states, outside and
\* inside the files section: a line containing "Files Received:" enters
\* the section, a line starting with "Total Files:" leaves it, and only the
\* "- " lines read inside are counted or ingested.  The entry counter the
\* pass returns is the number of those lines, every record it adds is the
\* record of one of them, each of them that has the full shape is in the
\* store afterwards, and a "- " line before the header or after the footer
\* changes neither the counter nor the store.
C30_OnlySectionEntriesCount ==
    [][ \A t \in Callers :
          (pc[t] = "summary_run" /\ pc'[t] = "checkpoint") =>
              LET s == Server(t)
                  lines == summary_file[s]
                  inside == InsideEntries(lines)
                  old == Len(db.received_files)
              IN  /\ frame'[t].received_count = Cardinality(inside)
                  /\ frame'[t].new_received <= Cardinality(inside)
                  /\ Len(db'.received_files) - old <= Cardinality(inside)
                  /\ ReceivedIn(db', s) - ReceivedIn(db, s) <= Cardinality(inside)
                  /\ \A i \in (old + 1)..Len(db'.received_files) :
                        \E k \in inside :
                            db'.received_files[i].filename = ShapeName(lines[k])
                  /\ \A k \in inside :
                        (k > frame[t].last /\ WellShaped(lines[k]))
                        => Ingested(db', s, lines[k])
                  /\ inside = {} => db' = db ]_vars

\* An entry before the header, one inside the section and one after the
\* footer: one entry counted, the one inside ingested
C30_Witness ==
    /\ pc[Requester] = "checkpoint"
    /\ \/ summary_file[servers[2]] = <<GoodEntry, HeaderLine, LateEntry, FooterLine>>
       \/ summary_file[servers[2]] = <<CountedHeader, LateEntry, FooterLine, GoodEntry>>
    /\ frame[Requester].received_count = 1
    /\ frame[Requester].new_received = 1
    /\ Len(db.received_files) = 1
    /\ db.received_files[1].filename = PlainName

\* The calls of the aggregator that are tried on every store reached
ActivityDates == {<<"2025-05-14">>, <<"2025-05-15">>}
ActivityBytes == {0, 12, 2048}

\* The row of zeros with the columns of one direction set
OneDirection(action, n, bytes) ==
    IF action = "sent"
    THEN [files_sent |-> n, files_received |-> 0,
          total_size_sent |-> bytes, total_size_received |-> 0]
    ELSE [files_sent |-> 0, files_received |-> n,
          total_size_sent |-> 0, total_size_received |-> bytes]

\* C31: update_daily_activity(date, host, direction, bytes) is an upsert.
\* With no row for (date, host) it makes the row with the counter of the
\* direction at 1, its byte total at bytes and the columns of the other
\* direction at 0; with a row it adds 1 to that counter and bytes to that
\* total; either way the columns of the other direction and the rows of
\* every other (date, host) stay as they were.
C31_DailyUpsert ==
    \A date \in ActivityDates : \A h \in ServerNames :
    \A action \in {"sent", "received"} : \A bytes \in ActivityBytes :
        LET old == db.daily_activity
            new == update_daily_activity(old, date, h, action, bytes)
            k == <<date, h>>
        IN  /\ DOMAIN new = DOMAIN old \cup {k}
            /\ \A x \in DOMAIN old : x # k => new[x] = old[x]
            /\ ~HasKey(old, k) => new[k] = OneDirection(action, 1, bytes)
            /\ HasKey(old, k) =>
                  /\ action = "sent" =>
                        new[k] = [old[k] EXCEPT
                                    !.files_sent = old[k].files_sent + 1,
                                    !.total_size_sent = old[k].total_size_sent + bytes]
                  /\ action = "received" =>
                        new[k] = [old[k] EXCEPT
                                    !.files_received = old[k].files_received + 1,
                                    !.total_size_received = old[k].total_size_received + bytes]

\* The aggregator has made a row for a 'sent' ledger row and has added two
\* received entries to that same row
C31_Witness ==
    /\ pc[Requester] = "checkpoint"
    /\ HasKey(db.daily_activity, <<<<"2025-05-14">>, servers[2]>>)
    /\ db.daily_activity[<<<<"2025-05-14">>, servers[2]>>]
         = [files_sent |-> 2, files_received |-> 2,
            total_size_sent |-> 2048, total_size_received |-> 943]

\* The rows of the ledger of host s after row n that are 'sent' rows with a
\* timestamp, and the entries of its report after entry n that state a date
DatedSent(s, n) ==
    {k \in (n + 1)..Len(history_file[s]) :
        /\ history_file[s][k].action = SENT
        /\ Truthy(history_file[s][k].timestamp)}

DatedEntries(s, n) ==
    {k \in (n + 1)..Len(EntryList(summary_file[s])) :
        WellShaped(EntryList(summary_file[s])[k])}

\* The entry names a file and nothing else: no size, no date.
NameOnly(line) == IsEntry(line) /\ ~Contains(line, SizeMark)

\* C32: a ledger row whose action is not 'sent' or whose timestamp is
\* empty is stored in file_exchanges and leaves daily_activity as it is,
\* and a report entry without a received date is stored in received_files
\* and leaves daily_activity as it is: a ledger pass stores every row after
\* the checkpoint and raises files_sent by the number of 'sent' rows with a
\* timestamp among them, touching no 'received' column; a summary pass
\* stores every entry that is a bare file name with an empty date and
\* raises files_received by the number of entries that state a date,
\* touching no 'sent' column.
C32_UndatedStoredNotAggregated ==
    [][ \A t \in Callers :
          /\ (pc[t] = "history_run" /\ pc'[t] = "summary") =>
                LET s == Server(t)
                IN  /\ \A k \in (frame[t].last + 1)..Len(history_file[s]) :
                          Committed(db', s, history_file[s][k])
                    /\ SentIn(db', s) = SentIn(db, s)
                                          + Cardinality(DatedSent(s, frame[t].last))
                    /\ ReceivedIn(db', s) = ReceivedIn(db, s)
                    /\ DatedSent(s, frame[t].last) = {}
                          => db'.daily_activity = db.daily_activity
          /\ (pc[t] = "summary_run" /\ pc'[t] = "checkpoint") =>
                LET s == Server(t)
                    es == EntryList(summary_file[s])
                IN  /\ \A k \in (frame[t].last + 1)..Len(es) :
                          NameOnly(es[k]) =>
                              \E i \in 1..Len(db'.received_files) :
                                  /\ db'.received_files[i].server_name = s
                                  /\ db'.received_files[i].filename
                                        = SubSeq(es[k], 3, Len(es[k]))
                                  /\ db'.received_files[i].received_date = <<>>
                    /\ ReceivedIn(db', s) = ReceivedIn(db, s)
                                              + Cardinality(DatedEntries(s, frame[t].last))
                    /\ SentIn(db', s) = SentIn(db, s)
                    /\ DatedEntries(s, frame[t].last) = {}
                          => db'.daily_activity = db.daily_activity ]_vars

\* A ledger whose only row has no timestamp and a report whose only entry
\* has no date have been read: two records and no aggregate
C32_Witness ==
    /\ pc[Requester] = "checkpoint"
    /\ Len(db.file_exchanges) = 1
    /\ db.file_exchanges[1].timestamp = <<>>
    /\ db.file_exchanges[1].action = SENT
    /\ Len(db.received_files) = 1
    /\ db.received_files[1].filename = <<"notes.txt">>
    /\ db.daily_activity = NoRows

\* The same for a row of another action: three rows stored, two counted
C32_OtherAction ==
    /\ pc[Requester] = "summary"
    /\ Len(db.file_exchanges) = 3
    /\ db.file_exchanges[3].action = <<"received">>
    /\ SentIn(db, servers[2]) = 2

\* C33: at the checkpoint write of a cycle the new running totals of the
\* host are the totals its checkpoint held before plus the counts the
\* cycle ingested, so that no increment of any cycle is lost, also when
\* two cycles of the host overlap: the write adds the cycle's counts to
\* the totals the store holds at that moment.
C33_TotalsAddThisCycle ==
    [][ \A t \in Callers :
          (pc[t] = "update_checkpoint" /\ pc'[t] = "totals") =>
              /\ get_checkpoint(db', Server(t)).total_processed_exchanges
                    = get_checkpoint(db, Server(t)).total_processed_exchanges
                      + frame[t].new_exchanges
              /\ get_checkpoint(db', Server(t)).total_processed_received
                    = get_checkpoint(db, Server(t)).total_processed_received
                      + frame[t].new_received ]_vars

\* No two rows of the ledger of host h name the same exchange, and no two
\* entries of its report the same file.
DistinctLines(h) ==
    /\ \A i, j \in 1..Len(history_file[h]) :
          i # j => ~SameExchangeKey(ExchangeRecord(h, history_file[h][i]),
                                    ExchangeRecord(h, history_file[h][j]))
    /\ \A i, j \in 1..Len(EntryList(summary_file[h])) :
          i # j => EntryList(summary_file[h])[i] # EntryList(summary_file[h])[j]

\* C34: when two cycles of one host overlap, however their passes and
\* commits interleave, no exchange record and no received-file record is
\* stored twice and no physical row is counted twice in daily_activity:
\* once both are done, over a ledger and a report that repeat no line,
\* files_sent of every (date, host) is the number of 'sent' records stored
\* for it and files_received is no more than the entries of the report.
C34_OverlapCountsOnce ==
    (Quiet /\ \A h \in ServerNames : DistinctLines(h)) =>
        /\ \A i, j \in 1..Len(db.file_exchanges) :
              i # j => ~SameExchangeKey(db.file_exchanges[i], db.file_exchanges[j])
        /\ \A i, j \in 1..Len(db.received_files) :
              i # j => ~SameReceivedKey(db.received_files[i], db.received_files[j])
        /\ \A date \in Dates : \A h \in ServerNames :
              /\ Daily(date, h).files_sent = Cardinality(SentOn(date, h))
              /\ Daily(date, h).files_received
                    <= Len(EntryList(summary_file[h]))

\* C35: within one parse pass the inserts of records and the bumps of
\* daily_activity are committed together or not at all: a pass that fails
\* part-way (it did not read its file to the end) leaves the records and
\* the aggregates as they were, and daily_activity never counts a file for
\* a (date, host) for which the store holds no record.
C35_PassCommitsTogether ==
    [][ /\ \A t \in Callers :
              /\ (/\ pc[t] = "history_run" /\ pc'[t] = "summary"
                   /\ frame'[t].history_lines < Len(history_file[Server(t)]))
                  => Tables(db') = Tables(db)
              /\ (/\ pc[t] = "summary_run" /\ pc'[t] = "checkpoint"
                   /\ frame'[t].received_count
                         < Len(EntryList(summary_file[Server(t)])))
                  => Tables(db') = Tables(db)
        /\ \A k \in DOMAIN db.daily_activity :
              /\ db.daily_activity[k].files_sent > 0 => SentOn(k[1], k[2]) # {}
              /\ db.daily_activity[k].files_received > 0
                    => ReceivedOn(k[1], k[2]) # {} ]_vars

\* A ledger pass has handled the first of two rows and failed at the
\* second: it reports one row and the store holds nothing of it
C35_Witness ==
    /\ pc[Requester] = "summary"
    /\ Server(Requester) = servers[1]
    /\ Len(history_file[servers[1]]) = 2
    /\ frame[Requester].history_lines = 1
    /\ frame[Requester].new_exchanges = 1
    /\ db.file_exchanges = <<>>
    /\ db.daily_activity = NoRows

\* C36: for a host whose logs directory does not exist
\* incremental_update_server returns the result of zeros and leaves the
\* checkpoint, the records, the daily_activity rows and the servers row of
\* the host as they are: the step adds nothing to the sums of the caller,
\* goes on to the next host without entering a pass, and the store after
\* it is the store before it.
C36_NoLogsDirTouchesNothing ==
    [][ \A t \in Callers :
          (/\ pc[t] = "server" /\ ~logs_dir[Server(t)]
           /\ (pc'[t] # pc[t] \/ frame'[t] # frame[t]))
          => /\ db' = db
             /\ pc'[t] \in {"server", "metadata"}
             /\ frame'[t].total_updates = frame[t].total_updates
             /\ frame'[t].new_exchanges = 0 /\ frame'[t].new_received = 0 ]_vars

\* The second host was ingested by an earlier cycle and has lost its logs
\* directory: the cycle has passed it and its rows are all there
C36_Witness ==
    /\ pc[Requester] = "server"
    /\ frame[Requester].i = 3
    /\ ~logs_dir[servers[2]]
    /\ get_checkpoint(db, servers[2]).last_history_line = 2
    /\ Cardinality(ExchangesOf(db, servers[2])) = 2
    /\ HasKey(db.servers, servers[2])
    /\ db.servers[servers[2]].sent = 2
    /\ SentIn(db, servers[2]) = 2
    /\ frame[Requester].total_updates.new_exchanges = 0

\* The offsets of the checkpoints of a store
Offsets(tbl) ==
    [h \in DOMAIN tbl |->
        <<tbl[h].last_history_line, tbl[h].last_received_count>>]

\* C37: starting the engine resets the checkpoints together with the
\* records and the aggregates, so that after a restart no checkpoint points
\* past records the store does not hold, and a restart followed by one
\* complete cycle over unchanged artifacts gives back the exchange
\* records, the received-file records, the daily_activity rows and the
\* checkpoint offsets that the last complete cycle before the restart had
\* left.
C37_RestartThenCycleReproduces ==
    /\ (up /\ Quiet /\ obs.restarted) => Tables(db) = EmptyTables
    /\ (pc["request"] = "done" /\ obs.prev # <<>> /\ obs.restarted) =>
          /\ db.file_exchanges = obs.prev[1].file_exchanges
          /\ db.received_files = obs.prev[1].received_files
          /\ db.daily_activity = obs.prev[1].daily_activity
          /\ Offsets(db.file_checkpoints) = Offsets(obs.prev[1].file_checkpoints)

====
